---- MODULE Spec2Model ----
(***************************************************************************)
(* A model of the STUN wire-level message core of ezk (crate stun-types):  *)
(* the eager MessageBuilder (builder.rs), the attribute codecs             *)
(* (attributes/*.rs) and ParsedMessage::parse (msg.rs).                    *)
(*                                                                         *)
(* Buffers are sequences of bytes (0..255).  Offsets are 0-based as in the *)
(* source; Slice(b, from, to) is b[from..to].  A u32 / u128 word is kept   *)
(* as its big-endian byte sequence or as a record of its bit fields, since *)
(* the model's integers are narrower than u32.                             *)
(***************************************************************************)
EXTENDS Integers, Sequences, FiniteSets, TLC

VARIABLES
    head,                   \* MessageBuilder.head : MessageHead(u32) as [z, typ, len]
    id,                     \* MessageBuilder.id   : MessageId(u128) as its 16 big-endian bytes
    padding_in_value_len,   \* MessageBuilder.padding_in_value_len
    buffer,                 \* MessageBuilder.buffer
    phase,                  \* "building"; "finished": bytes were handed out; "parsed"
    flag_called,            \* history: padding_in_value_len() was called on this builder
    added,                  \* history: one record per successful add_attr_with call
    input,                  \* the bytes handed to ParsedMessage::parse
    result,                 \* what parse returned for input
    rets,                   \* history: what each add_attr_with call returned
    at_encode,              \* history: the buffer that attr.encode was last invoked on
    overflow_checks,        \* the build panics on integer overflow (debug) or wraps
    new_class,              \* history: the Class handed to MessageBuilder::new
    typ_word,               \* a caller's type word, the &mut u16 of Class::set / Method::set
    credential,             \* the StunCredential a caller authenticates with
    queue,                  \* the AttrInsertQueue of the queued builder (msg.rs)
    transports,             \* sip-core: struct Transports (unmanaged, factories, transports)
    select                  \* sip-core: the frame of one Transports::select call

vars == << head, id, padding_in_value_len, buffer, phase, flag_called, added, input,
           result, rets, at_encode, overflow_checks, new_class, typ_word,
                    credential, queue, transports, select >>

-----------------------------------------------------------------------------
(* Bounds of the model *)

\* add_attr_with calls made on one builder
MaxAttrs == 2
\* longest string / byte attribute value put into a built message
MaxStrLen == 3
\* TLVs of a hand-made parser input
MaxTlvs == 2
\* longest declared value length of a TLV of a hand-made parser input
MaxValLen == 4

-----------------------------------------------------------------------------
(* Bytes and words *)

\* The build target's byte order, which u32::to_ne_bytes / from_ne_bytes follow.
\* The message layouts the repository expects (00 01 00 0C ... for a binding
\* request) are those of a little-endian target.
TargetLittleEndian == TRUE

RECURSIVE BitAnd(_, _)
BitAnd(a, b) ==
    IF a = 0 \/ b = 0 THEN 0
    ELSE (a % 2) * (b % 2) + 2 * BitAnd(a \div 2, b \div 2)

RECURSIVE BitXor(_, _)
BitXor(a, b) ==
    IF a = 0 THEN b
    ELSE IF b = 0 THEN a
    ELSE ((a + b) % 2) + 2 * BitXor(a \div 2, b \div 2)

BitOr(a, b) == a + b - BitAnd(a, b)

Slice(b, from, to) == SubSeq(b, from + 1, to)

Take(b, n) == SubSeq(b, 1, n)

Reverse(s) == [i \in 1..Len(s) |-> s[Len(s) + 1 - i]]

Zeros(n) == [i \in 1..n |-> 0]

\* BufMut::put_u16: big-endian
PutU16(n) == << (n \div 256) % 256, n % 256 >>

\* ReadBytesExt::read_u16::<NetworkEndian> at 0-based offset pos
ReadU16(b, pos) == b[pos + 1] * 256 + b[pos + 2]

\* byte-wise xor of two equally long byte strings
XorBytes(a, b) == [i \in 1..Len(a) |-> BitXor(a[i], b[i])]

\* the big-endian bytes of a u32 below 2^31
U32Bytes(n) == << n \div 16777216, (n \div 65536) % 256, (n \div 256) % 256, n % 256 >>

\* to_ne_bytes as a big-endian target has it
ToNeBytes_BigEndianTarget(be) == be

\* u32::to_ne_bytes / u128::to_ne_bytes of the word whose big-endian bytes are be
ToNeBytes(be) == IF TargetLittleEndian THEN Reverse(be) ELSE be

\* u32::from_ne_bytes / u128::from_ne_bytes, giving the word's big-endian bytes
FromNeBytes(ne) == IF TargetLittleEndian THEN Reverse(ne) ELSE ne

COOKIE == 554869826         \* 0x2112A442

U16Max == 65535             \* u16::MAX

CookieBytes == U32Bytes(COOKIE)

\* a u16 padding that is the remainder of n instead of what is missing to 4
padding_u16_Remainder(n) == n % 4

padding_u16(n) ==
    CASE n % 4 = 0 -> 0
      [] n % 4 = 1 -> 3
      [] n % 4 = 2 -> 2
      [] n % 4 = 3 -> 1

\* a padding that is the remainder of n instead of what is missing to 4
padding_usize_Remainder(n) == n % 4

padding_usize(n) ==
    CASE n % 4 = 0 -> 0
      [] n % 4 = 1 -> 3
      [] n % 4 = 2 -> 2
      [] n % 4 = 3 -> 1

-----------------------------------------------------------------------------
(* header.rs: MessageHead, MessageId, Class, Method *)

MaskClass == 272            \* Class::MASK  0x110
MaskMethod == 16111         \* Method::MASK 0x3EEF
ClassRequest == 0           \* Class::REQUEST
ClassIndication == 16       \* Class::INDICATION 0x010
ClassSuccess == 256         \* Class::SUCCESS    0x100
ClassError == 272           \* Class::ERROR      0x110
MethodBinding == 1          \* Method::BINDING

Classes == {"Request", "Indication", "Success", "Error"}

\* a header word whose z field is bit 31 alone
MessageHead_ZBit31(bytes) ==
    [z   |-> bytes[1] \div 128,
     typ |-> (bytes[1] % 64) * 256 + bytes[2],
     len |-> bytes[3] * 256 + bytes[4]]

\* MessageHead(u32): z = bits 31..30, typ = bits 29..16, len = bits 15..0
MessageHead(bytes) ==
    [z   |-> bytes[1] \div 64,
     typ |-> (bytes[1] % 64) * 256 + bytes[2],
     len |-> bytes[3] * 256 + bytes[4]]

\* the big-endian bytes of MessageHead.0
HeadBytes(h) ==
    << h.z * 64 + h.typ \div 256, h.typ % 256, h.len \div 256, h.len % 256 >>

\* the bitfield setters keep the field's width
set_typ(h, typ) == [h EXCEPT !.typ = typ % 16384]

set_len(h, len) == [h EXCEPT !.len = len % 65536]

\* MessageId(u128): cookie = bits 127..96, tsx_id = bits 95..0
cookie(mid) == Slice(mid, 0, 4)

tsx_id(mid) == Slice(mid, 4, 16)

MessageIdNew == CookieBytes \o Zeros(12)

set_tsx_id(mid, tsx) == cookie(mid) \o tsx

\* a Class::set that masks with its own mask and so drops the method bits
ClassSet_KeepsClassMask(class, typ) ==
    LET kept == BitAnd(typ, MaskClass) IN
    CASE class = "Request"    -> BitOr(kept, ClassRequest)
      [] class = "Indication" -> BitOr(kept, ClassIndication)
      [] class = "Success"    -> BitOr(kept, ClassSuccess)
      [] class = "Error"      -> BitOr(kept, ClassError)

ClassSet(class, typ) ==
    LET kept == BitAnd(typ, MaskMethod) IN
    CASE class = "Request"    -> BitOr(kept, ClassRequest)
      [] class = "Indication" -> BitOr(kept, ClassIndication)
      [] class = "Success"    -> BitOr(kept, ClassSuccess)
      [] class = "Error"      -> BitOr(kept, ClassError)

MethodSet(method, typ) ==
    LET kept == BitAnd(typ, MaskClass) IN
    CASE method = "Binding" -> BitOr(kept, MethodBinding)

\* impl TryFrom<u16> for Class: every value of the two masked bits is a class
ClassTryFrom(value) ==
    LET m == BitAnd(value, MaskClass) IN
    CASE m = ClassRequest    -> [ok |-> TRUE, v |-> "Request"]
      [] m = ClassIndication -> [ok |-> TRUE, v |-> "Indication"]
      [] m = ClassSuccess    -> [ok |-> TRUE, v |-> "Success"]
      [] m = ClassError      -> [ok |-> TRUE, v |-> "Error"]
      [] OTHER               -> [ok |-> FALSE, v |-> "unknown class"]

\* impl TryFrom<u16> for Method
MethodTryFrom(value) ==
    LET m == BitAnd(value, MaskMethod) IN
    CASE m = MethodBinding -> [ok |-> TRUE, v |-> "Binding"]
      [] OTHER             -> [ok |-> FALSE, v |-> "unknown method"]

-----------------------------------------------------------------------------
(* attributes/*.rs: the attribute catalog.  An attribute value is a record *)
(* of one shape for all types: t is its Rust type, v its bytes (the text,  *)
(* the nonce, the hash, the IP octets, the reason phrase, the algorithm's  *)
(* params) or its u16 list (UnknownAttributes), n its number (the port,    *)
(* the error number, the algorithm; for the integrity attributes the key   *)
(* of the Hmac context), fam the address family (1 = V4, 2 = V6) and algs  *)
(* the records of PasswordAlgorithms.                                       *)

Attr(t, v, n, fam, algs) == [t |-> t, v |-> v, n |-> n, fam |-> fam, algs |-> algs]

TypeMappedAddress == 1              \* 0x0001
TypeUsername == 6                   \* 0x0006
TypeMessageIntegrity == 8           \* 0x0008
TypeErrorCode == 9                  \* 0x0009
TypeUnknownAttributes == 10         \* 0x000A
TypeRealm == 20                     \* 0x0014
TypeNonce == 21                     \* 0x0015
TypeMessageIntegritySha256 == 28    \* 0x001C
TypePasswordAlgorithm == 29         \* 0x001D
TypeUserHash == 30                  \* 0x001E
TypeXorMappedAddress == 32          \* 0x0020
TypePasswordAlgorithms == 32770     \* 0x8002
TypeAlternateDomain == 32771        \* 0x8003
TypeSoftware == 32802               \* 0x8022
TypeAlternateServer == 32803        \* 0x8023

\* Attribute::TYPE
TYPE(t) ==
    CASE t = "MappedAddress"          -> TypeMappedAddress
      [] t = "Username"               -> TypeUsername
      [] t = "MessageIntegrity"       -> TypeMessageIntegrity
      [] t = "ErrorCode"              -> TypeErrorCode
      [] t = "UnknownAttributes"      -> TypeUnknownAttributes
      [] t = "Realm"                  -> TypeRealm
      [] t = "Nonce"                  -> TypeNonce
      [] t = "MessageIntegritySha256" -> TypeMessageIntegritySha256
      [] t = "PasswordAlgorithm"      -> TypePasswordAlgorithm
      [] t = "UserHash"               -> TypeUserHash
      [] t = "XorMappedAddress"       -> TypeXorMappedAddress
      [] t = "PasswordAlgorithms"     -> TypePasswordAlgorithms
      [] t = "AlternateDomain"        -> TypeAlternateDomain
      [] t = "Software"               -> TypeSoftware
      [] t = "AlternateServer"        -> TypeAlternateServer

StringTypes == {"Username", "Realm", "Software"}
BytesTypes == {"Nonce", "AlternateDomain"}
AddrTypes == {"MappedAddress", "XorMappedAddress", "AlternateServer"}

Sha1OutputSize == 20        \* Sha1::output_size()
Sha256OutputSize == 32      \* Sha256::output_size()
UserHashLen == 32           \* UserHash([u8; 32])
AddrV4EncodeLen == 64       \* encode_len of a SocketAddr::V4 value
AddrV6EncodeLen == 160      \* encode_len of a SocketAddr::V6 value

\* addr.rs: const XOR16 = (COOKIE & 0xFFFF) as u16
XOR16 == COOKIE % 65536

\* Hmac<D>: update(data) then finalize(), D's output size being n.  The digest
\* is abstracted to two keyed weighted sums of the data, which tell apart the
\* keys, the lengths and the contents of the model's messages; its first
\* four bytes carry the two sums.  Absorb is the sum over s[lo..hi] modulo p,
\* the weight of a position being a quadratic in it.
RECURSIVE Absorb(_, _, _, _, _)
Absorb(s, lo, hi, a, p) ==
    IF lo > hi THEN 0
    ELSE IF lo = hi THEN ((s[lo] + 1) * ((((lo * a) % p) * (lo + 3) + 13) % p)) % p
    ELSE LET mid == (lo + hi) \div 2 IN
         (Absorb(s, lo, mid, a, p) + Absorb(s, mid + 1, hi, a, p)) % p

HmacFinalize(key, data, n) ==
    LET d1 == (Absorb(data, 1, Len(data), 7919, 65521) + 977 * key) % 65521
        d2 == (Absorb(data, 1, Len(data), 10007, 65519) + 313 * key + 7) % 65519
    IN  [i \in 1..n |->
            CASE i = 1 -> d1 \div 256
              [] i = 2 -> d1 % 256
              [] i = 3 -> d2 \div 256
              [] i = 4 -> d2 % 256
              [] OTHER -> (d1 + d2 * i + 7 * i * i) % 256]

Md5OutputSize == 16         \* md5::Digest([u8; 16])

\* md5::compute(data).0: the digest is abstracted, like the HMACs, to keyed
\* weighted sums of the data filling its 16 bytes
Md5(data) ==
    LET d1 == (Absorb(data, 1, Len(data), 4099, 65521) + 29 * Len(data) + 5) % 65521
        d2 == (Absorb(data, 1, Len(data), 6151, 65519) + 11) % 65519
    IN  [i \in 1..Md5OutputSize |->
            CASE i = 1 -> d1 \div 256
              [] i = 2 -> d1 % 256
              [] i = 3 -> d2 \div 256
              [] i = 4 -> d2 % 256
              [] OTHER -> (d1 * i + d2 + 3 * i * i) % 256]

\* Hmac::new_from_slice(key): the number that stands for the Hmac context
\* keyed with the bytes key in HmacFinalize
HmacNewFromSlice(key) ==
    (Absorb(key, 1, Len(key), 257, 32749) * 17 + Len(key)) % 32749

\* integrity.rs new_hmac_sha1(password) / new_hmac_sha256(password)
new_hmac_sha1(password) == HmacNewFromSlice(Md5(password))

new_hmac_sha256(password) == HmacNewFromSlice(Md5(password))

\* one (algorithm, params) record
Alg(algorithm, params) == [algorithm |-> algorithm, params |-> params]

\* PasswordAlgorithm::encode, and one record of PasswordAlgorithms::encode
EncodeAlgorithm(alg) ==
    PutU16(alg.algorithm) \o PutU16(Len(alg.params)) \o alg.params
        \o Zeros(padding_usize(Len(alg.params)))

AlgorithmLen(alg) == 4 + Len(alg.params) + padding_usize(Len(alg.params))

RECURSIVE EncodeAlgorithms(_)
EncodeAlgorithms(algs) ==
    IF algs = <<>> THEN <<>>
    ELSE EncodeAlgorithm(Head(algs)) \o EncodeAlgorithms(Tail(algs))

RECURSIVE AlgorithmsLen(_)
AlgorithmsLen(algs) ==
    IF algs = <<>> THEN 0 ELSE AlgorithmLen(Head(algs)) + AlgorithmsLen(Tail(algs))

RECURSIVE PutU16s(_)
PutU16s(s) == IF s = <<>> THEN <<>> ELSE PutU16(Head(s)) \o PutU16s(Tail(s))

\* addr.rs encode_addr: the bytes it puts for the socket address addr
\* (fam, v = the IP's octets, n = the port)
encode_addr(addr, xor16, xor32, xor128) ==
    IF addr.fam = 1
    THEN << 0, 1 >> \o XorBytes(PutU16(addr.n), PutU16(xor16))
                    \o XorBytes(FromNeBytes(addr.v), xor32)
    ELSE << 0, 2 >> \o XorBytes(PutU16(addr.n), PutU16(xor16))
                    \o XorBytes(FromNeBytes(addr.v), xor128)

\* what a decode hands back: Ok(value) or Err(error); get_attr adds None
Got(kind, v, msg) == [kind |-> kind, v |-> v, msg |-> msg]

\* addr.rs decode_addr of the value bytes buf: the socket address (fam, v =
\* the octets Ipv4Addr::from / Ipv6Addr::from give, n = the port), or the
\* error returned.  The reads are big-endian (NE = NetworkEndian).
decode_addr(buf, xor16, xor32, xor128) ==
    IF Len(buf) < 1 THEN Got("err", << >>, "failed to read from buffer")
    ELSE IF buf[1] # 0 THEN Got("err", << >>, "first byte must be zero")
    ELSE IF Len(buf) < 2 THEN Got("err", << >>, "failed to read from buffer")
    ELSE IF Len(buf) < 4 THEN Got("err", << >>, "failed to read from buffer")
    ELSE
        LET family == buf[2]
            port   == XorBytes(Slice(buf, 2, 4), PutU16(xor16))
        IN  CASE family = 1 ->
                    IF Len(buf) < 8
                    THEN Got("err", << >>, "failed to read from buffer")
                    ELSE Got("ok", [fam |-> 1,
                                    v   |-> XorBytes(Slice(buf, 4, 8), xor32),
                                    n   |-> ReadU16(port, 0)], "")
              [] family = 2 ->
                    IF Len(buf) < 20
                    THEN Got("err", << >>, "failed to read from buffer")
                    ELSE Got("ok", [fam |-> 2,
                                    v   |-> XorBytes(Slice(buf, 4, 20), xor128),
                                    n   |-> ReadU16(port, 0)], "")
              [] OTHER -> Got("err", << >>, "invalid address family")

\* ErrorCode::encode: class in bits 11..8, number in bits 7..0 of the u32 put
EncodeErrorCode(ec) ==
    LET class  == ec.n \div 100
        number == ec.n % 100
    IN  << 0, 0, class % 16, number % 256 >> \o ec.v

\* message_integrity_encode: the MAC of everything but the last 4 bytes
message_integrity_encode(key, buf, n) ==
    HmacFinalize(key, Slice(buf, 0, Len(buf) - 4), n)

\* message_integrity_decode: the MAC of buffer[..attr_idx] against the value
message_integrity_decode(key, buf, attr, n) ==
    IF HmacFinalize(key, Slice(buf, 0, attr.attr_idx), n) # attr.value
    THEN Got("err", << >>, "failed to verify message integrity")
    ELSE Got("ok", << >>, "")

\* Attribute::encode_len
EncodeLen(attr) ==
    CASE attr.t \in StringTypes \cup BytesTypes -> Len(attr.v)
      [] attr.t = "UserHash"               -> UserHashLen
      [] attr.t \in AddrTypes              ->
            IF attr.fam = 1 THEN AddrV4EncodeLen ELSE AddrV6EncodeLen
      [] attr.t = "PasswordAlgorithm"      -> AlgorithmLen(Alg(attr.n, attr.v))
      [] attr.t = "PasswordAlgorithms"     -> AlgorithmsLen(attr.algs)
      [] attr.t = "UnknownAttributes"      -> Len(attr.v) * 2
      [] attr.t = "ErrorCode"              -> 4 + Len(attr.v)
      [] attr.t = "MessageIntegrity"       -> Sha1OutputSize
      [] attr.t = "MessageIntegritySha256" -> Sha256OutputSize

\* Attribute::encode: the bytes appended to the builder's buffer buf, the
\* builder's id being mid
Encode(attr, buf, mid) ==
    CASE attr.t \in StringTypes \cup BytesTypes -> attr.v
      [] attr.t = "UserHash"               -> attr.v
      [] attr.t = "MappedAddress"          ->
            encode_addr(attr, 0, Zeros(4), Zeros(16))
      [] attr.t = "AlternateServer"        ->
            encode_addr(attr, 0, Zeros(4), Zeros(16))
      [] attr.t = "XorMappedAddress"       ->
            encode_addr(attr, XOR16, CookieBytes, mid)
      [] attr.t = "PasswordAlgorithm"      -> EncodeAlgorithm(Alg(attr.n, attr.v))
      [] attr.t = "PasswordAlgorithms"     -> EncodeAlgorithms(attr.algs)
      [] attr.t = "UnknownAttributes"      -> PutU16s(attr.v)
      [] attr.t = "ErrorCode"              -> EncodeErrorCode(attr)
      [] attr.t = "MessageIntegrity"       ->
            message_integrity_encode(attr.n, buf, Sha1OutputSize)
      [] attr.t = "MessageIntegritySha256" ->
            message_integrity_encode(attr.n, buf, Sha256OutputSize)

-----------------------------------------------------------------------------
(* The attribute values the model adds to a builder *)

\* text of n ASCII letters, and n bytes that are no UTF-8 text
Text(n) == [i \in 1..n |-> 96 + i]
Raw(n) == [i \in 1..n |-> 240 + i]

\* text and byte attributes
Str(t, v) == Attr(t, v, 0, 0, << >>)
\* SocketAddr::V4 / SocketAddr::V6 values of the address attributes
AddrV4(t, octets, port) == Attr(t, octets, port, 1, << >>)
AddrV6(t, octets, port) == Attr(t, octets, port, 2, << >>)

IpV4 == << 192, 0, 2, 1 >>

\* "ezk-stun", the software name of the client's binding request
EzkStun == << 101, 122, 107, 45, 115, 116, 117, 110 >>
IpV6 == [i \in 1..16 |-> 16 * i - 1]

Catalog ==
         { Str("Username", Text(n)) : n \in 0..MaxStrLen }
    \cup { Str("Nonce", Raw(n)) : n \in 0..MaxStrLen }
    \cup { Str("Realm", Text(2)), Str("Software", Text(3)), Str("Software", EzkStun),
           Str("AlternateDomain", Raw(1)) }
    \cup { AddrV4(t, IpV4, 32853) : t \in AddrTypes }
    \cup { AddrV6(t, IpV6, 3478) : t \in AddrTypes }
    \cup { Str("UserHash", [i \in 1..32 |-> i]) }
    \cup { Attr("PasswordAlgorithm", Raw(n), 2, 0, << >>) : n \in {0, 3} }
    \cup { Attr("PasswordAlgorithms", << >>, 0, 0, << Alg(1, << >>), Alg(2, Raw(2)) >>) }
    \cup { Attr("UnknownAttributes", u, 0, 0, << >>) : u \in { << >>, << 32800 >> } }
    \cup { Attr("ErrorCode", Text(n), 401, 0, << >>) : n \in {0, 3} }
    \cup { Attr("MessageIntegrity", << >>, k, 0, << >>) : k \in {1, 2} }
    \cup { Attr("MessageIntegritySha256", << >>, 1, 0, << >>) }

-----------------------------------------------------------------------------
(* builder.rs: MessageBuilder *)

NoResult == [kind |-> "pending", msg |-> "", pm |-> << >>]

\* enum StunCredential: ShortTerm { username, password } and
\* LongTerm { realm, username, password }, the strings as their bytes
Credential(kind, realm, username, password) ==
    [kind |-> kind, realm |-> realm, username |-> username, password |-> password]

\* no credential is in use
NoCredential == Credential("none", << >>, << >>, << >>)

\* msg.rs AttrInsertQueue::new(): attrs_len 0 and no closure
AttrInsertQueueNew == [attrs_len |-> 0, builder |-> << >>]

\* sip-core TransportsBuilder::default().build(): no transport, no factory
NoTransports == [unmanaged |-> << >>, factories |-> << >>, transports |-> {}]

\* no select call is under way
NoSelect == [pc |-> "idle"]

\* MessageBuilder::new(class, method, tsx_id): the fields and the 20 bytes put
BuilderNew(class, method, tsx) ==
    LET typ == ClassSet(class, MethodSet(method, 0))
        h   == set_typ([z |-> 0, typ |-> 0, len |-> 0], typ)
        mid == set_tsx_id(MessageIdNew, tsx)
    IN  [head |-> h, id |-> mid, padding_in_value_len |-> TRUE,
         buffer |-> HeadBytes(h) \o mid]

\* a set_len that writes the bytes of to_ne_bytes in the order it got them
BuilderSetLen_NotReversed(h, buf, len) ==
    LET h2 == set_len(h, len)
        ne == ToNeBytes(HeadBytes(h2))
    IN  [head |-> h2,
         buffer |-> << ne[1], ne[2], ne[3], ne[4] >> \o Slice(buf, 4, Len(buf))]

\* MessageBuilder::set_len: the head after set_len(len), and the buffer with
\* its first four bytes rewritten from u32::to_ne_bytes(head.0), reversed
BuilderSetLen(h, buf, len) ==
    LET h2 == set_len(h, len)
        ne == ToNeBytes(HeadBytes(h2))
    IN  [head |-> h2,
         buffer |-> << ne[4], ne[3], ne[2], ne[1] >> \o Slice(buf, 4, Len(buf))]

\* the transaction id 0x00112233445566778899AABB
TsxIds == { [i \in 1..12 |-> 17 * (i - 1)] }

\* the classes the model builds messages of: no class bit set, and both set
BuilderClasses == {"Request", "Error"}

Init ==
    /\ \E class \in BuilderClasses, tsx \in TsxIds :
          LET b == BuilderNew(class, "Binding", tsx) IN
          /\ new_class = class
          /\ head = b.head
          /\ id = b.id
          /\ padding_in_value_len = b.padding_in_value_len
          /\ buffer = b.buffer
    /\ phase = "building"
    /\ flag_called = FALSE
    /\ added = << >>
    /\ input = << >>
    /\ result = NoResult
    /\ rets = << >>
    /\ at_encode = << >>
    /\ overflow_checks = FALSE
    /\ typ_word = 0
    /\ credential = NoCredential
    /\ queue = AttrInsertQueueNew
    /\ transports = NoTransports
    /\ select = NoSelect

\* MessageBuilder::padding_in_value_len(b)
PaddingInValueLen(b) ==
    /\ phase = "building"
    /\ padding_in_value_len' = b
    /\ flag_called' = TRUE
    /\ UNCHANGED << head, id, buffer, phase, added, input, result, rets, at_encode, overflow_checks, new_class, typ_word,
                    credential, queue, transports, select >>

\* what one add_attr_with call did: Ok(()), Err(TryFromInt) or a panic, with
\* the length of the value handed in and the total length of the attributes
\* that the call was to leave
Ret(kind, msg, value_len, total) ==
    [kind |-> kind, msg |-> msg, value_len |-> value_len, total |-> total]

ErrTryFromInt == "failed to convert integer"
PanicEncodeLen == "Failed to get encode_len"
PanicOverflow == "attempt to add with overflow"

\* MessageBuilder::add_attr / add_attr_with.  encode_len is Err when the
\* length leaves the u16 range, and the expect on it panics; a u16 sum that
\* overflows panics or wraps, as the build has it; u16::try_from(..)? returns
\* Err after the TLV header was put; no encode of the catalog returns Err for
\* a value whose encode_len is Ok.
AddAttrWith(attr) ==
    LET value_len == EncodeLen(attr)
        enc_len   == value_len
        padding   == padding_u16(enc_len)
        total     == (Len(buffer) - 20) + 4 + enc_len + padding
        typed     == buffer \o PutU16(TYPE(attr.t))
        b1        == typed \o PutU16(IF padding_in_value_len
                                     THEN enc_len + padding ELSE enc_len)
        set       == BuilderSetLen(head, b1, (Len(b1) - 20) + enc_len + padding)
        bytes     == Encode(attr, set.buffer, id)
        b2        == set.buffer \o bytes \o Zeros(padding_usize(enc_len))
        panics(msg, buf) ==
            /\ phase' = "panicked"
            /\ buffer' = buf
            /\ rets' = Append(rets, Ret("panic", msg, value_len, total))
            /\ UNCHANGED << head, added, at_encode >>
    IN  /\ phase = "building"
        /\ Len(rets) < MaxAttrs
        /\ IF value_len > U16Max
              THEN panics(PanicEncodeLen, buffer)
           ELSE IF padding_in_value_len /\ enc_len + padding > U16Max /\ overflow_checks
              THEN panics(PanicOverflow, typed)
           ELSE IF Len(b1) - 20 > U16Max
              THEN /\ buffer' = b1
                   /\ rets' = Append(rets, Ret("err", ErrTryFromInt, value_len, total))
                   /\ UNCHANGED << head, added, phase, at_encode >>
           ELSE IF (Len(b1) - 20) + enc_len + padding > U16Max /\ overflow_checks
              THEN panics(PanicOverflow, b1)
           ELSE /\ head' = set.head
                /\ buffer' = b2
                /\ added' = Append(added, [attr |-> attr,
                                           attr_idx |-> Len(buffer),
                                           enc_len |-> enc_len,
                                           appended |-> Len(bytes)])
                /\ at_encode' = set.buffer
                /\ rets' = Append(rets, Ret("ok", "", value_len, total))
                /\ UNCHANGED phase
        /\ UNCHANGED << id, padding_in_value_len, flag_called, input, result,
                        overflow_checks, new_class, typ_word,
                    credential, queue, transports, select >>

AddAttr == \E attr \in Catalog : AddAttrWith(attr)

\* MessageBuilder::finish: the builder is consumed and its bytes handed out
Finish ==
    /\ phase = "building"
    /\ phase' = "finished"
    /\ input' = buffer
    /\ UNCHANGED << head, id, padding_in_value_len, buffer, flag_called, added, result,
                   rets, at_encode, overflow_checks, new_class, typ_word,
                    credential, queue, transports, select >>

-----------------------------------------------------------------------------
(* msg.rs: ParsedMessage::parse *)

ErrRead == "failed to read from buffer"
ErrAttrLen == "Invalid attribute length in STUN message"

Returned(kind, msg, pm) == [kind |-> kind, msg |-> msg, pm |-> pm]

\* the while loop of parse, the cursor being at pos and attributes holding
\* the records pushed so far: the attribute list, or the error returned
RECURSIVE ParseAttributes(_, _, _)
ParseAttributes(in, pos, attributes) ==
    IF pos >= Len(in) THEN [ok |-> TRUE, attributes |-> attributes, msg |-> ""]
    ELSE IF Len(in) - pos < 2 THEN [ok |-> FALSE, attributes |-> << >>, msg |-> ErrRead]
    ELSE IF Len(in) - (pos + 2) < 2 THEN [ok |-> FALSE, attributes |-> << >>, msg |-> ErrRead]
    ELSE
        LET attr_typ    == ReadU16(in, pos)
            attr_len    == ReadU16(in, pos + 2)
            padding     == padding_usize(attr_len)
            value_begin == pos + 4
            value_end   == value_begin + attr_len
            padding_end == value_end + padding
        IN  IF padding_end > Len(in)
            THEN [ok |-> FALSE, attributes |-> << >>, msg |-> ErrAttrLen]
            ELSE ParseAttributes(in, padding_end,
                    Append(attributes, [attr_idx |-> value_begin - 4,
                                        typ      |-> attr_typ,
                                        value    |-> Slice(in, value_begin, value_end)]))

\* ParsedMessage::parse(input): Ok(None), Err(InvalidData(msg)), a panic of
\* one of the two unwrap()s, or Ok(Some(ParsedMessage))
Parse(in) ==
    IF Len(in) < 4 THEN Returned("err", ErrRead, << >>)
    ELSE
        LET h == MessageHead(Slice(in, 0, 4)) IN
        IF h.z # 0 THEN Returned("none", "", << >>)
        ELSE IF Len(in) - 4 < 16 THEN Returned("err", ErrRead, << >>)
        ELSE
            LET mid    == Slice(in, 4, 20)
                class  == ClassTryFrom(h.typ)
                method == MethodTryFrom(h.typ)
            IN  IF cookie(mid) # CookieBytes THEN Returned("none", "", << >>)
                ELSE IF ~class.ok THEN Returned("panic", class.v, << >>)
                ELSE IF ~method.ok THEN Returned("panic", method.v, << >>)
                ELSE
                    LET attrs == ParseAttributes(in, 20, << >>) IN
                    IF ~attrs.ok THEN Returned("err", attrs.msg, << >>)
                    ELSE Returned("ok", "",
                            [buffer     |-> in,
                             head       |-> h,
                             id         |-> mid,
                             class      |-> class.v,
                             method     |-> method.v,
                             tsx_id     |-> tsx_id(mid),
                             attributes |-> attrs.attributes])

\* a caller hands the bytes it holds to ParsedMessage::parse
ParseInput ==
    /\ phase = "finished"
    /\ phase' = "parsed"
    /\ result' = Parse(input)
    /\ UNCHANGED << head, id, padding_in_value_len, buffer, flag_called, added, input,
                   rets, at_encode, overflow_checks, new_class, typ_word,
                    credential, queue, transports, select >>

-----------------------------------------------------------------------------
(* msg.rs get_attr / get_attr_with, and the decode of the text and byte    *)
(* attributes (attributes/mod.rs)                                          *)

\* std::str::from_utf8 accepts the bytes from 0-based position i on
RECURSIVE IsUtf8From(_, _)
IsUtf8From(b, i) ==
    IF i >= Len(b) THEN TRUE
    ELSE
        LET b0 == b[i + 1]
            cont(k, lo, hi) == i + k < Len(b) /\ b[i + k + 1] >= lo /\ b[i + k + 1] <= hi
        IN  CASE b0 < 128 -> IsUtf8From(b, i + 1)
              [] b0 >= 194 /\ b0 <= 223 ->
                    cont(1, 128, 191) /\ IsUtf8From(b, i + 2)
              [] b0 = 224 ->
                    cont(1, 160, 191) /\ cont(2, 128, 191) /\ IsUtf8From(b, i + 3)
              [] (b0 >= 225 /\ b0 <= 236) \/ b0 = 238 \/ b0 = 239 ->
                    cont(1, 128, 191) /\ cont(2, 128, 191) /\ IsUtf8From(b, i + 3)
              [] b0 = 237 ->
                    cont(1, 128, 159) /\ cont(2, 128, 191) /\ IsUtf8From(b, i + 3)
              [] b0 = 240 ->
                    cont(1, 144, 191) /\ cont(2, 128, 191) /\ cont(3, 128, 191)
                        /\ IsUtf8From(b, i + 4)
              [] b0 >= 241 /\ b0 <= 243 ->
                    cont(1, 128, 191) /\ cont(2, 128, 191) /\ cont(3, 128, 191)
                        /\ IsUtf8From(b, i + 4)
              [] b0 = 244 ->
                    cont(1, 128, 143) /\ cont(2, 128, 191) /\ cont(3, 128, 191)
                        /\ IsUtf8From(b, i + 4)
              [] OTHER -> FALSE

\* PasswordAlgorithms::decode: the while loop over the value, the cursor
\* being at pos and algorithms holding the records pushed so far.  The
\* cursor is left right behind the 4-byte record header: nothing advances
\* it past the params or their padding.
RECURSIVE DecodeAlgorithms(_, _, _)
DecodeAlgorithms(value, pos, algorithms) ==
    IF pos >= Len(value) THEN Got("ok", algorithms, "")
    ELSE IF Len(value) - pos < 2 THEN Got("err", << >>, ErrRead)
    ELSE IF Len(value) - (pos + 2) < 2 THEN Got("err", << >>, ErrRead)
    ELSE
        LET alg == ReadU16(value, pos)
            len == ReadU16(value, pos + 2)
            p   == pos + 4
        IN  IF Len(value) < p + len
            THEN Got("err", << >>, "invalid algorithm len")
            ELSE DecodeAlgorithms(value, p,
                    Append(algorithms, Alg(alg, Slice(value, p, p + len))))

ErrErrorCodeLen == "error code must be at least 4 bytes"

\* ErrorCode::decode: the head word is u32::from_ne_bytes of the first four
\* value bytes, class its bits 11..8 and number its bits 7..0; the result is
\* (n = class * 100 + number, v = the reason)
DecodeErrorCode(value) ==
    IF Len(value) < 4 THEN Got("err", << >>, ErrErrorCodeLen)
    ELSE
        LET be     == FromNeBytes(Slice(value, 0, 4))
            class  == be[3] % 16
            number == be[4]
            reason == IF Len(value) > 4 THEN Slice(value, 4, Len(value)) ELSE << >>
        IN  IF ~IsUtf8From(reason, 0) THEN Got("err", << >>, "Utf8")
            ELSE Got("ok", [n |-> class * 100 + number, v |-> reason], "")

\* Attribute::decode of Username, Realm, Software (BytesStr::from_utf8_bytes
\* of the value slice), of Nonce, AlternateDomain (the value slice), of the
\* address attributes, of PasswordAlgorithms and ErrorCode, and of the
\* integrity attributes, whose context ctx is the key of the Hmac handed in
Decode(t, ctx, pm, attr) ==
    CASE t \in StringTypes ->
            IF IsUtf8From(attr.value, 0)
            THEN Got("ok", attr.value, "")
            ELSE Got("err", << >>, "Utf8")
      [] t \in BytesTypes -> Got("ok", attr.value, "")
      [] t \in {"MappedAddress", "AlternateServer"} ->
            decode_addr(attr.value, 0, Zeros(4), Zeros(16))
      [] t = "XorMappedAddress" ->
            decode_addr(attr.value, XOR16, CookieBytes, pm.id)
      [] t = "MessageIntegrity" ->
            message_integrity_decode(ctx, pm.buffer, attr, Sha1OutputSize)
      [] t = "MessageIntegritySha256" ->
            message_integrity_decode(ctx, pm.buffer, attr, Sha256OutputSize)
      [] t = "PasswordAlgorithms" -> DecodeAlgorithms(attr.value, 0, << >>)
      [] t = "ErrorCode" -> DecodeErrorCode(attr.value)

\* a find that takes the last record of type typ
FindFirst_Last(attributes, typ) ==
    LET found == { i \in 1..Len(attributes) : attributes[i].typ = typ } IN
    IF found = {} THEN 0 ELSE CHOOSE i \in found : \A j \in found : j <= i

\* the find of get_attr_with: the position of the first record of type typ in
\* attributes, 0 when there is none
FindFirst(attributes, typ) ==
    LET found == { i \in 1..Len(attributes) : attributes[i].typ = typ } IN
    IF found = {} THEN 0 ELSE CHOOSE i \in found : \A j \in found : i <= j

\* ParsedMessage::get_attr_with::<A>(ctx): the first record of type A::TYPE
GetAttrWith(pm, t, ctx) ==
    LET i == FindFirst(pm.attributes, TYPE(t)) IN
    IF i = 0 THEN Got("none", << >>, "")
    ELSE Decode(t, ctx, pm, pm.attributes[i])

\* ParsedMessage::get_attr::<A>: get_attr_with(())
GetAttr(pm, t) == GetAttrWith(pm, t, 0)

-----------------------------------------------------------------------------
(* The builder's life: attributes are added until the builder is finished *)
(* and its bytes are handed out.                                           *)

Next ==
    \/ \E b \in BOOLEAN : PaddingInValueLen(b)
    \/ AddAttr
    \/ Finish

Spec == Init /\ [][Next]_vars

-----------------------------------------------------------------------------
(* Bytes arriving from the network: hand-made parser inputs.  An input is  *)
(* a header word, a message id and up to MaxTlvs TLVs laid out by the wire *)
(* format, cut off after any number of bytes.                              *)

\* the z bits of the header word: none, bit 30, bit 31
InputZ == {0, 1, 2}
\* Binding request, Binding error response, and a request of method 2
InputTyps == {1, 273, 2}
\* the magic cookie, and a word that differs from it in its last bit
InputCookies == { CookieBytes, U32Bytes(COOKIE + 1) }
InputTlvTypes == {TypeUsername, TypeSoftware}

WirePadding(n) == (4 - (n % 4)) % 4

InputTlv == [typ : InputTlvTypes, len : 0..MaxValLen]

TlvBytes(tlv) ==
    PutU16(tlv.typ) \o PutU16(tlv.len) \o Text(tlv.len) \o Zeros(WirePadding(tlv.len))

RECURSIVE TlvsBytes(_)
TlvsBytes(tlvs) ==
    IF tlvs = << >> THEN << >> ELSE TlvBytes(Head(tlvs)) \o TlvsBytes(Tail(tlvs))

InputTlvLists == UNION { [1..n -> InputTlv] : n \in 0..MaxTlvs }

InputTsx == CHOOSE tsx \in TsxIds : TRUE

WireMessage(z, typ, cookieBytes, tlvs) ==
    LET body == TlvsBytes(tlvs) IN
    HeadBytes([z |-> z, typ |-> typ, len |-> Len(body)])
        \o cookieBytes \o InputTsx \o body

\* in is one of the model's inputs
IsInput(in) ==
    \E z \in InputZ, typ \in InputTyps, c \in InputCookies, tlvs \in InputTlvLists :
        LET wire == WireMessage(z, typ, c, tlvs) IN
        \E n \in 0..Len(wire) : in = Take(wire, n)

\* a datagram has arrived and waits to be parsed; no builder is at work
InitParse ==
    /\ LET b == BuilderNew("Request", "Binding", InputTsx) IN
          /\ new_class = "Request"
          /\ head = b.head
          /\ id = b.id
          /\ padding_in_value_len = b.padding_in_value_len
          /\ buffer = b.buffer
    /\ phase = "finished"
    /\ flag_called = FALSE
    /\ added = << >>
    /\ IsInput(input)
    /\ result = NoResult
    /\ rets = << >>
    /\ at_encode = << >>
    /\ overflow_checks = FALSE
    /\ typ_word = 0
    /\ credential = NoCredential
    /\ queue = AttrInsertQueueNew
    /\ transports = NoTransports
    /\ select = NoSelect

SpecParse == InitParse /\ [][ParseInput]_vars

-----------------------------------------------------------------------------
(* msg.rs: check_if_stun_message, which a caller applies to a datagram     *)

\* check_if_stun_message(i): the header word and the id are read with
\* from_ne_bytes; every path returns false
check_if_stun_message(i) ==
    IF Len(i) < 20 THEN FALSE
    ELSE
        LET h == MessageHead(FromNeBytes(Slice(i, 0, 4))) IN
        IF h.z # 0 THEN FALSE
        ELSE
            LET mid == FromNeBytes(Slice(i, 4, 20)) IN
            IF cookie(mid) # CookieBytes THEN FALSE
            ELSE FALSE

\* a caller asks whether the bytes it holds are a STUN message
CheckInput ==
    /\ phase = "finished"
    /\ phase' = "checked"
    /\ result' = Returned(IF check_if_stun_message(input) THEN "true" ELSE "false",
                          "", << >>)
    /\ UNCHANGED << head, id, padding_in_value_len, buffer, flag_called, added, input,
                    rets, at_encode, overflow_checks, new_class, typ_word,
                    credential, queue, transports, select >>

SpecCheck == InitParse /\ [][CheckInput]_vars

-----------------------------------------------------------------------------
(* Socket addresses: a builder with one of several transaction ids, to     *)
(* which XOR-MAPPED-ADDRESS attributes of many addresses are added.        *)

\* 0x00112233445566778899AABB, all zero bits, all one bits
AddrTsxIds ==
    { [i \in 1..12 |-> 17 * (i - 1)], Zeros(12), [i \in 1..12 |-> 255] }

\* the octets of the Ipv4Addr / Ipv6Addr values; some read the same in both
\* directions
AddrV4Octets == { IpV4, << 10, 0, 0, 10 >>, << 0, 0, 0, 0 >>, << 255, 255, 255, 254 >> }
AddrV6Octets == { IpV6, [i \in 1..16 |-> IF i \in {1, 16} THEN 32 ELSE 0] }
AddrPorts == { 0, 3478, 32853, 65535 }

XorAddrCatalog ==
         { AddrV4("XorMappedAddress", o, p) : o \in AddrV4Octets, p \in AddrPorts }
    \cup { AddrV6("XorMappedAddress", o, p) : o \in AddrV6Octets, p \in AddrPorts }

InitAddr ==
    /\ \E tsx \in AddrTsxIds :
          LET b == BuilderNew("Success", "Binding", tsx) IN
          /\ new_class = "Success"
          /\ head = b.head
          /\ id = b.id
          /\ padding_in_value_len = b.padding_in_value_len
          /\ buffer = b.buffer
    /\ phase = "building"
    /\ flag_called = FALSE
    /\ added = << >>
    /\ input = << >>
    /\ result = NoResult
    /\ rets = << >>
    /\ at_encode = << >>
    /\ overflow_checks = FALSE
    /\ typ_word = 0
    /\ credential = NoCredential
    /\ queue = AttrInsertQueueNew
    /\ transports = NoTransports
    /\ select = NoSelect

AddXorAddr == \E attr \in XorAddrCatalog : AddAttrWith(attr)

NextAddr == AddXorAddr \/ Finish

SpecAddr == InitAddr /\ [][NextAddr]_vars

-----------------------------------------------------------------------------
(* A message protected by an integrity attribute is altered in one byte on *)
(* its way to the receiver, who parses what arrives.                       *)

IntegrityTypes == {"MessageIntegrity", "MessageIntegritySha256"}

TamperCatalog ==
         { Str("Username", Text(1)), AddrV4("MappedAddress", IpV4, 32853) }
    \cup { Attr("MessageIntegrity", << >>, k, 0, << >>) : k \in {1, 2} }
    \cup { Attr("MessageIntegritySha256", << >>, 1, 0, << >>) }

InitTamper ==
    /\ LET b == BuilderNew("Request", "Binding", InputTsx) IN
          /\ new_class = "Request"
          /\ head = b.head
          /\ id = b.id
          /\ padding_in_value_len = b.padding_in_value_len
          /\ buffer = b.buffer
    /\ phase = "building"
    /\ flag_called = FALSE
    /\ added = << >>
    /\ input = << >>
    /\ result = NoResult
    /\ rets = << >>
    /\ at_encode = << >>
    /\ overflow_checks = FALSE
    /\ typ_word = 0
    /\ credential = NoCredential
    /\ queue = AttrInsertQueueNew
    /\ transports = NoTransports
    /\ select = NoSelect

AddTamperAttr == \E attr \in TamperCatalog : AddAttrWith(attr)

\* the bytes of a finished message whose last attribute is an integrity
\* attribute, less the MAC value: 0-based positions [0, attr_idx + 4)
OutsideMac ==
    IF added # << >> /\ added[Len(added)].attr.t \in IntegrityTypes
    THEN 0..(added[Len(added)].attr_idx + 3)
    ELSE {}

\* byte pos of the message in flight is replaced by b, and the receiver
\* hands what arrives to ParsedMessage::parse
ReceiveAltered(pos, b) ==
    /\ phase = "finished"
    /\ pos \in OutsideMac
    /\ b # input[pos + 1]
    /\ input' = [input EXCEPT ![pos + 1] = b]
    /\ result' = Parse(input')
    /\ phase' = "parsed"
    /\ UNCHANGED << head, id, padding_in_value_len, buffer, flag_called, added,
                   rets, at_encode, overflow_checks, new_class, typ_word,
                    credential, queue, transports, select >>

ReceiveAnyAltered ==
    /\ phase = "finished"
    /\ \E pos \in OutsideMac, b \in 0..255 : ReceiveAltered(pos, b)

NextTamper ==
    \/ AddTamperAttr
    \/ Finish
    \/ ReceiveAnyAltered

SpecTamper == InitTamper /\ [][NextTamper]_vars

-----------------------------------------------------------------------------
(* Lengths at the edge of the 16-bit fields: a builder, in a build with or *)
(* without overflow checks, to which values of up to 65536 bytes are added. *)

\* n bytes 'x'
Fill(n) == [i \in 1..n |-> 120]

\* the lengths of the values: empty and short; two of which pass 65535 in
\* total; one that leaves room for nothing but one more TLV header; some that
\* with their TLV header or padding pass 65535; and one past the u16 range
BigLens == {0, 1, 32764, 65528, 65532, 65535, 65536}

BigCatalog ==
         { Str("Nonce", Fill(n)) : n \in BigLens }
    \cup { Str("Realm", Fill(n)) : n \in {0, 4} }

InitBig ==
    /\ LET b == BuilderNew("Request", "Binding", InputTsx) IN
          /\ new_class = "Request"
          /\ head = b.head
          /\ id = b.id
          /\ padding_in_value_len = b.padding_in_value_len
          /\ buffer = b.buffer
    /\ phase = "building"
    /\ flag_called = FALSE
    /\ added = << >>
    /\ input = << >>
    /\ result = NoResult
    /\ rets = << >>
    /\ at_encode = << >>
    /\ overflow_checks \in BOOLEAN
    /\ typ_word = 0
    /\ credential = NoCredential
    /\ queue = AttrInsertQueueNew
    /\ transports = NoTransports
    /\ select = NoSelect

AddBig == \E attr \in BigCatalog : AddAttrWith(attr)

NextBig == AddBig \/ Finish

SpecBig == InitBig /\ [][NextBig]_vars

-----------------------------------------------------------------------------
(* PASSWORD-ALGORITHMS: a builder to which one list of (algorithm, params) *)
(* records is added.                                                       *)

\* records of one PasswordAlgorithms value
MaxAlgs == 2
\* longest params of a record
MaxParamLen == 3

\* the algorithm field of a record: MD5, SHA-256
AlgIds == {1, 2}

\* params: bytes that read as no record header, and four zero bytes, which
\* read as the header of a record of algorithm 0 with no params
AlgParams == { Raw(n) : n \in 0..MaxParamLen } \cup { Zeros(4) }

AlgRecords == { Alg(a, p) : a \in AlgIds, p \in AlgParams }

AlgLists == UNION { [1..n -> AlgRecords] : n \in 0..MaxAlgs }

AddAlgs ==
    /\ added = << >>
    /\ \E algs \in AlgLists :
          AddAttrWith(Attr("PasswordAlgorithms", << >>, 0, 0, algs))

NextAlgs == AddAlgs \/ Finish

SpecAlgs == InitTamper /\ [][NextAlgs]_vars

-----------------------------------------------------------------------------
(* ERROR-CODE: a builder to which one error code with a reason phrase is   *)
(* added.                                                                  *)

\* the legal error codes
ErrorCodes == 300..699

ErrorCodeCatalog ==
    { Attr("ErrorCode", Text(n), code, 0, << >>) : n \in 0..MaxStrLen, code \in ErrorCodes }

AddErrorCode ==
    /\ added = << >>
    /\ \E attr \in ErrorCodeCatalog : AddAttrWith(attr)

NextErrorCode == AddErrorCode \/ Finish

SpecErrorCode == InitTamper /\ [][NextErrorCode]_vars

-----------------------------------------------------------------------------
(* The type word: a builder of any class is made, finished and parsed, and *)
(* a caller packs a class and a method into a u16 word of its own.         *)

\* the words a caller starts from: 0, single fields, 0x3EEF, 0x5555, 0xAAAA
\* and 0xFFFF, which have bits outside the class and method fields
TypWords == {0, 1, 16, 272, 16111, 21845, 43690, 65535}

Methods == {"Binding"}

InitType ==
    /\ \E class \in Classes, tsx \in TsxIds :
          LET b == BuilderNew(class, "Binding", tsx) IN
          /\ new_class = class
          /\ head = b.head
          /\ id = b.id
          /\ padding_in_value_len = b.padding_in_value_len
          /\ buffer = b.buffer
    /\ phase = "building"
    /\ flag_called = FALSE
    /\ added = << >>
    /\ input = << >>
    /\ result = NoResult
    /\ rets = << >>
    /\ at_encode = << >>
    /\ overflow_checks = FALSE
    /\ typ_word \in TypWords
    /\ credential = NoCredential
    /\ queue = AttrInsertQueueNew
    /\ transports = NoTransports
    /\ select = NoSelect

\* Class::set(&self, typ) on the caller's word
ClassSetWord(c) ==
    /\ typ_word' = ClassSet(c, typ_word)
    /\ UNCHANGED << head, id, padding_in_value_len, buffer, phase, flag_called, added,
                    input, result, rets, at_encode, overflow_checks, new_class,
                    credential, queue, transports, select >>

\* Method::set(&self, typ) on the caller's word
MethodSetWord(m) ==
    /\ typ_word' = MethodSet(m, typ_word)
    /\ UNCHANGED << head, id, padding_in_value_len, buffer, phase, flag_called, added,
                    input, result, rets, at_encode, overflow_checks, new_class,
                    credential, queue, transports, select >>

NextType ==
    \/ \E c \in Classes : ClassSetWord(c)
    \/ \E m \in Methods : MethodSetWord(m)
    \/ Finish
    \/ ParseInput

SpecType == InitType /\ [][NextType]_vars

-----------------------------------------------------------------------------
(* Credentials: a caller holding a short-term or long-term credential adds *)
(* the integrity attributes with the Hmac contexts that new_hmac_sha1 and  *)
(* new_hmac_sha256 make of its password.                                   *)

\* passwords: short ones, and one as long as an MD5 digest
Passwords == { Text(n) : n \in 1..MaxStrLen } \cup { Fill(Md5OutputSize) }

Usernames == { Text(1), Text(2) }

Credentials ==
         { Credential("ShortTerm", << >>, u, p) : u \in Usernames, p \in Passwords }
    \cup { Credential("LongTerm", Text(2), u, p) : u \in Usernames, p \in Passwords }

InitCred ==
    /\ LET b == BuilderNew("Request", "Binding", InputTsx) IN
          /\ new_class = "Request"
          /\ head = b.head
          /\ id = b.id
          /\ padding_in_value_len = b.padding_in_value_len
          /\ buffer = b.buffer
    /\ phase = "building"
    /\ flag_called = FALSE
    /\ added = << >>
    /\ input = << >>
    /\ result = NoResult
    /\ rets = << >>
    /\ at_encode = << >>
    /\ overflow_checks = FALSE
    /\ typ_word = 0
    /\ credential \in Credentials
    /\ queue = AttrInsertQueueNew
    /\ transports = NoTransports
    /\ select = NoSelect

\* add_attr_with(&MessageIntegritySha256, new_hmac_sha256(password))
AddIntegritySha256 ==
    AddAttrWith(Attr("MessageIntegritySha256", << >>,
                     new_hmac_sha256(credential.password), 0, << >>))

\* add_attr_with(&MessageIntegrity, new_hmac_sha1(password))
AddIntegritySha1 ==
    AddAttrWith(Attr("MessageIntegrity", << >>,
                     new_hmac_sha1(credential.password), 0, << >>))

NextCred ==
    \/ AddIntegritySha256
    \/ AddIntegritySha1
    \/ Finish

SpecCred == InitCred /\ [][NextCred]_vars

-----------------------------------------------------------------------------
(* msg.rs: the queued builder.  Attributes are queued on an AttrInsertQueue *)
(* as closures, and MessageBuilder::finish(queue) writes the header and     *)
(* runs them.                                                               *)

\* msg.rs MessageBuilder::new(class, method, tsx_id): head and id as in the
\* eager builder, and an empty buffer
QueuedBuilderNew(class, method, tsx) ==
    [BuilderNew(class, method, tsx) EXCEPT !.buffer = << >>]

\* the closure f pushed by AttrInsertQueue::add_attr_with: what it captured
QueuedFn(attr, enc_len, padding) ==
    [attr |-> attr, enc_len |-> enc_len, padding |-> padding]

InitQueue ==
    /\ \E class \in BuilderClasses, tsx \in TsxIds :
          LET b == QueuedBuilderNew(class, "Binding", tsx) IN
          /\ new_class = class
          /\ head = b.head
          /\ id = b.id
          /\ padding_in_value_len = b.padding_in_value_len
          /\ buffer = b.buffer
    /\ phase = "building"
    /\ flag_called = FALSE
    /\ added = << >>
    /\ input = << >>
    /\ result = NoResult
    /\ rets = << >>
    /\ at_encode = << >>
    /\ overflow_checks \in BOOLEAN
    /\ typ_word = 0
    /\ credential = NoCredential
    /\ queue = AttrInsertQueueNew
    /\ transports = NoTransports
    /\ select = NoSelect

\* AttrInsertQueue::add_attr / add_attr_with: the expect on encode_len
\* panics when the length leaves the u16 range; the closure is pushed, and
\* then attrs_len += 4 + enc_len + padding panics or wraps as the build has it
QueueAddAttrWith(attr) ==
    LET value_len == EncodeLen(attr)
        enc_len   == value_len
        padding   == padding_u16(enc_len)
        step      == 4 + enc_len + padding
        total     == queue.attrs_len + step
        pushed    == Append(queue.builder, QueuedFn(attr, enc_len, padding))
    IN  /\ phase = "building"
        /\ Len(rets) < MaxAttrs
        /\ IF value_len > U16Max
              THEN /\ phase' = "panicked"
                   /\ rets' = Append(rets, Ret("panic", PanicEncodeLen, value_len, total))
                   /\ UNCHANGED queue
           ELSE IF overflow_checks /\ total > U16Max
              THEN /\ phase' = "panicked"
                   /\ rets' = Append(rets, Ret("panic", PanicOverflow, value_len, total))
                   /\ queue' = [queue EXCEPT !.builder = pushed]
           ELSE /\ queue' = [attrs_len |-> total % 65536, builder |-> pushed]
                /\ rets' = Append(rets, Ret("ok", "", value_len, total))
                /\ UNCHANGED phase
        /\ UNCHANGED << head, id, padding_in_value_len, buffer, flag_called, added,
                        input, result, at_encode, overflow_checks, new_class,
                        typ_word, credential, transports, select >>

QueueAddAttr == \E attr \in Catalog : QueueAddAttrWith(attr)

\* the for loop of finish: the closures fs are run in order on the builder
\* whose buffer is st.buffer; st.added and st.at_encode record what each did
RECURSIVE RunBuilders(_, _, _)
RunBuilders(fs, st, mid) ==
    IF fs = << >> THEN st
    ELSE
        LET f     == Head(fs)
            typed == st.buffer \o PutU16(TYPE(f.attr.t)) \o PutU16(f.enc_len + f.padding)
            bytes == Encode(f.attr, typed, mid)
        IN  RunBuilders(Tail(fs),
                [buffer    |-> typed \o bytes \o Zeros(padding_usize(f.enc_len)),
                 added     |-> Append(st.added, [attr     |-> f.attr,
                                                 attr_idx |-> Len(st.buffer),
                                                 enc_len  |-> f.enc_len,
                                                 appended |-> Len(bytes)]),
                 at_encode |-> typed],
                mid)

\* msg.rs MessageBuilder::finish(attrs): set_len(attrs.attrs_len), the head
\* word and the id are put, every closure is run, and the bytes are handed
\* out; no encode of the catalog returns Err
QueueFinish ==
    LET h2  == set_len(head, queue.attrs_len)
        run == RunBuilders(queue.builder,
                           [buffer |-> HeadBytes(h2) \o id, added |-> << >>,
                            at_encode |-> << >>], id)
    IN  /\ phase = "building"
        /\ phase' = "finished"
        /\ head' = h2
        /\ buffer' = run.buffer
        /\ input' = run.buffer
        /\ added' = run.added
        /\ at_encode' = run.at_encode
        /\ UNCHANGED << id, padding_in_value_len, flag_called, result, rets,
                        overflow_checks, new_class, typ_word, credential, queue, transports, select >>

NextQueue == QueueAddAttr \/ QueueFinish

SpecQueue == InitQueue /\ [][NextQueue]_vars

-----------------------------------------------------------------------------
(* sip-core transport/mod.rs: Transports::select.  A transport or factory  *)
(* is a record of what its trait methods return; info is the UriInfo of    *)
(* the request's uri.  The managed map is the map as select finds it when  *)
(* it takes the lock, and its iteration order is any order.                *)

\* factories of one Transports
MaxFactories == 2

\* remote addresses: two that a name may resolve to, and one it does not
RemoteA == "192.0.2.1:5060"
RemoteB == "192.0.2.2:5060"
RemoteC == "192.0.2.3:5060"

\* enum Direction
DirNone == [kind |-> "None", remote |-> ""]
DirOutgoing(remote) == [kind |-> "Outgoing", remote |-> remote]
DirIncoming(remote) == [kind |-> "Incoming", remote |-> remote]

\* a Transport: name(), secure(), direction() and bound()
Tp(name, secure, direction, bound) ==
    [name |-> name, secure |-> secure, direction |-> direction, bound |-> bound]

\* a Factory: name(), secure(), and what its create returns when select
\* calls it: "ok" or "err"
Fac(name, secure, create) == [name |-> name, secure |-> secure, create |-> create]

\* str::eq_ignore_ascii_case for the names and transport params of the model
Lower(n) ==
    CASE n \in {"UDP", "udp"} -> "udp"
      [] n \in {"TCP", "tcp"} -> "tcp"
      [] n \in {"TLS", "tls"} -> "tls"

\* Transport / Factory::matches_transport_param(name): the default, and the
\* override of TLS, which accepts the tcp string
matches_transport_param(t, tp_name) ==
    Lower(t.name) = Lower(tp_name) \/ (t.name = "TLS" /\ Lower(tp_name) = "tcp")

\* the checks select makes of a transport or factory t against info:
\* info.transport.map(matches_transport_param).unwrap_or(true), and
\* info.allows_security_level(t.secure()), info.allows being the values of
\* secure() that the uri allows
Eligible(info, t) ==
    /\ info.transport # "None" => matches_transport_param(t, info.transport)
    /\ t.secure \in info.allows

\* UriInfo: the transport param (None or a name) and the security levels
\* allowed (any, or secure only)
UriInfos == [transport : {"None", "udp", "TCP"}, allows : {{TRUE, FALSE}, {TRUE}}]

\* what resolve_uri returns: addresses, or an error
Resolutions == { << >>, << RemoteA >>, << RemoteA, RemoteB >> }

UnmanagedLists ==
    { << >>,
      << Tp("UDP", FALSE, DirNone, "0.0.0.0:5060") >>,
      << Tp("UDP", FALSE, DirNone, "0.0.0.0:5060"),
         Tp("UDP", FALSE, DirNone, "0.0.0.0:5080") >> }

ManagedTransports ==
    { Tp("TCP", FALSE, DirOutgoing(RemoteA), "0.0.0.0:40000"),
      Tp("TCP", FALSE, DirIncoming(RemoteA), "0.0.0.0:5060"),
      Tp("TCP", FALSE, DirOutgoing(RemoteC), "0.0.0.0:40001"),
      Tp("TLS", TRUE, DirOutgoing(RemoteB), "0.0.0.0:40002") }

Factories == { Fac(n, n = "TLS", c) : n \in {"TCP", "TLS"}, c \in {"ok", "err"} }

FactoryLists == UNION { [1..n -> Factories] : n \in 0..MaxFactories }

\* the errors of select: its own io::Error, the resolver's error with
\* status BAD_GATEWAY, and the io::Error that the create of the i-th
\* factory returns
SelectError(msg, factory) == [msg |-> msg, factory |-> factory]
NoError == SelectError("", 0)
ErrNoSuitable == SelectError("no suitable transport or factory found", 0)
ErrBadGateway == SelectError("BAD_GATEWAY", 0)
ErrCreate(i) == SelectError("create", i)

\* a source that select looked at: "unmanaged", "managed", or "create" with
\* the position of the factory whose create was invoked
Looked(src, i) == [src |-> src, i |-> i]

\* what select has returned: nothing yet, Ok((transport, addresses)) or Err
NotReturned == [kind |-> "pending", transport |-> << >>, addresses |-> << >>, err |-> NoError]
SelectOk(transport, addresses) ==
    [kind |-> "ok", transport |-> transport, addresses |-> addresses, err |-> NoError]
SelectErr(err) ==
    [kind |-> "err", transport |-> << >>, addresses |-> << >>, err |-> err]

\* the frame of a select call: where it is, info, the resolved addresses,
\* the index of the next factory, last_err, what it returned, and the
\* history of the sources it looked at
Frame(pc, info, addresses, i, last_err, ret, looked) ==
    [pc |-> pc, info |-> info, addresses |-> addresses, i |-> i,
     last_err |-> last_err, ret |-> ret, looked |-> looked]

InitSelect ==
    /\ LET b == BuilderNew("Request", "Binding", InputTsx) IN
          /\ new_class = "Request"
          /\ head = b.head
          /\ id = b.id
          /\ padding_in_value_len = b.padding_in_value_len
          /\ buffer = b.buffer
    /\ phase = "building"
    /\ flag_called = FALSE
    /\ added = << >>
    /\ input = << >>
    /\ result = NoResult
    /\ rets = << >>
    /\ at_encode = << >>
    /\ overflow_checks = FALSE
    /\ typ_word = 0
    /\ credential = NoCredential
    /\ queue = AttrInsertQueueNew
    /\ \E u \in UnmanagedLists, f \in FactoryLists, m \in SUBSET ManagedTransports :
          transports = [unmanaged |-> u, factories |-> f, transports |-> m]
    /\ \E info \in UriInfos :
          select = Frame("resolve", info, << >>, 1, ErrNoSuitable, NotReturned, << >>)

BuilderUnchanged ==
    UNCHANGED << head, id, padding_in_value_len, buffer, phase, flag_called, added,
                 input, result, rets, at_encode, overflow_checks, new_class,
                 typ_word, credential, queue >>

\* self.resolve_uri(&info).await.status(Code::BAD_GATEWAY)?
SelectResolve ==
    /\ select.pc = "resolve"
    /\ \/ \E addresses \in Resolutions :
             select' = [select EXCEPT !.pc = "unmanaged", !.addresses = addresses]
       \/ select' = [select EXCEPT !.pc = "done", !.ret = SelectErr(ErrBadGateway)]
    /\ UNCHANGED transports
    /\ BuilderUnchanged

\* the position of the first transport of unmanaged that find accepts, 0
\* when there is none
FindUnmanaged(unmanaged, info) ==
    LET found == { k \in 1..Len(unmanaged) : Eligible(info, unmanaged[k]) } IN
    IF found = {} THEN 0 ELSE CHOOSE k \in found : \A j \in found : k <= j

\* "Try to find a fitting connectionless transport"
SelectUnmanaged ==
    /\ select.pc = "unmanaged"
    /\ LET k      == FindUnmanaged(transports.unmanaged, select.info)
           looked == Append(select.looked, Looked("unmanaged", 0))
       IN  IF k # 0
           THEN select' = [select EXCEPT
                             !.pc = "done", !.looked = looked,
                             !.ret = SelectOk(transports.unmanaged[k], select.addresses)]
           ELSE select' = [select EXCEPT !.pc = "managed", !.looked = looked]
    /\ UNCHANGED transports
    /\ BuilderUnchanged

\* the sequence s holds x
Contains(s, x) == \E k \in 1..Len(s) : s[k] = x

\* the managed transport t passes every continue of the loop
ManagedFits(info, addresses, t) ==
    /\ t.direction.kind = "Outgoing"
    /\ info.transport # "None" => matches_transport_param(t, info.transport)
    /\ Contains(addresses, t.direction.remote)
    /\ t.secure \in info.allows

\* "Try to find any idling transport to use": the loop over the locked map
\* returns the first transport that fits, in the map's iteration order
SelectManaged ==
    /\ select.pc = "managed"
    /\ LET fits   == { t \in transports.transports :
                          ManagedFits(select.info, select.addresses, t) }
           looked == Append(select.looked, Looked("managed", 0))
       IN  IF fits # {}
           THEN \E t \in fits :
                   select' = [select EXCEPT
                                !.pc = "done", !.looked = looked,
                                !.ret = SelectOk(t, << t.direction.remote >>)]
           ELSE select' = [select EXCEPT !.pc = "factories", !.looked = looked]
    /\ UNCHANGED transports
    /\ BuilderUnchanged

\* an error handling that keeps the first error
KeepError_First(last_err, e) == IF last_err = ErrNoSuitable THEN e ELSE last_err

\* Err(e) => { last_err = e; }
KeepError(last_err, e) == e

\* one turn of "for factory in self.factories.iter()": the factory is
\* skipped, or its create is awaited and returns the transport it made with
\* the address it connected to, or an error
SelectFactory ==
    /\ select.pc = "factories"
    /\ select.i <= Len(transports.factories)
    /\ LET factory == transports.factories[select.i]
           looked  == Append(select.looked, Looked("create", select.i))
       IN  IF ~Eligible(select.info, factory)
           THEN select' = [select EXCEPT !.i = @ + 1]
           ELSE IF factory.create = "ok"
           THEN \E remote \in {RemoteA, RemoteB} :
                   select' = [select EXCEPT
                                !.pc = "done", !.looked = looked,
                                !.ret = SelectOk(Tp(factory.name, factory.secure,
                                                    DirOutgoing(remote), "created"),
                                                 << remote >>)]
           ELSE select' = [select EXCEPT
                             !.i = @ + 1, !.looked = looked,
                             !.last_err = KeepError(@, ErrCreate(select.i))]
    /\ UNCHANGED transports
    /\ BuilderUnchanged

\* Err(last_err.into()) after the loop
SelectFail ==
    /\ select.pc = "factories"
    /\ select.i > Len(transports.factories)
    /\ select' = [select EXCEPT !.pc = "done", !.ret = SelectErr(select.last_err)]
    /\ UNCHANGED transports
    /\ BuilderUnchanged

NextSelect ==
    \/ SelectResolve
    \/ SelectUnmanaged
    \/ SelectManaged
    \/ SelectFactory
    \/ SelectFail

SpecSelect == InitSelect /\ [][NextSelect]_vars

-----------------------------------------------------------------------------
(* Properties of the builder (checked under Spec) *)

\* the length field stored in bytes 2..4 of b
StoredLen(b) == ReadU16(b, 2)

\* the TLV length field of the i-th attribute added
StoredTlvLen(i) == ReadU16(buffer, added[i].attr_idx + 2)

\* C1: after new and after every add_attr_with, the length field in bytes
\* 2..4 of the buffer is buffer.len() - 20, and so it is in the bytes that
\* finish() returns.
C1_HeaderLenIsBufferLen ==
    /\ StoredLen(buffer) = Len(buffer) - 20
    /\ phase = "finished" => StoredLen(input) = Len(input) - 20

\* C2: for every attribute added, encode appended exactly encode_len() bytes;
\* the address attributes report 8 for an IPv4 and 20 for an IPv6 value.
C2_EncodeAppendsEncodeLen ==
    \A i \in 1..Len(added) :
        /\ added[i].appended = added[i].enc_len
        /\ added[i].attr.t \in AddrTypes =>
              added[i].enc_len = IF added[i].attr.fam = 1 THEN 8 ELSE 20

\* C3: after each add_attr the buffer parses, to exactly the attributes added
\* so far, in insertion order, each with the type code of what was added.
C3_BufferParsesToAdded ==
    (phase = "building" /\ added # << >>) =>
        LET r == Parse(buffer) IN
        /\ r.kind = "ok"
        /\ Len(r.pm.attributes) = Len(added)
        /\ \A i \in 1..Len(added) :
              /\ r.pm.attributes[i].typ = TYPE(added[i].attr.t)
              /\ r.pm.attributes[i].attr_idx = added[i].attr_idx

\* C4: on a builder whose padding_in_value_len was never called, the TLV
\* length field of every attribute is its encode_len, padding excluded.
C4_DefaultTlvLenExcludesPadding ==
    ~flag_called => \A i \in 1..Len(added) : StoredTlvLen(i) = added[i].enc_len

\* C10: a message built on a default builder with one text or byte attribute
\* of value v, finished and parsed, gives back v from get_attr, byte for byte.
C10_TextRoundTrip ==
    (/\ phase = "finished"
     /\ ~flag_called
     /\ Len(added) = 1
     /\ added[1].attr.t \in StringTypes \cup BytesTypes) =>
        LET r == Parse(input) IN
        /\ r.kind = "ok"
        /\ GetAttr(r.pm, added[1].attr.t) = Got("ok", added[1].attr.v, "")

\* What the builder does keep (under Spec): with no address attribute added,
\* the length field, the bytes appended and the parse of the buffer are as
\* stated above; and a text or byte value whose TLV length was written
\* without padding comes back from get_attr byte for byte.
NoAddressAdded == \A i \in 1..Len(added) : added[i].attr.t \notin AddrTypes

HeaderLenIsBufferLen_NoAddress == NoAddressAdded => C1_HeaderLenIsBufferLen

EncodeAppendsEncodeLen_NoAddress == NoAddressAdded => C2_EncodeAppendsEncodeLen

BufferParsesToAdded_NoAddress == NoAddressAdded => C3_BufferParsesToAdded

TextRoundTrip_ExactTlvLen ==
    (/\ phase = "finished"
     /\ Len(added) = 1
     /\ added[1].attr.t \in StringTypes \cup BytesTypes
     /\ StoredTlvLen(1) = added[1].enc_len) =>
        LET r == Parse(input) IN
        /\ r.kind = "ok"
        /\ GetAttr(r.pm, added[1].attr.t) = Got("ok", added[1].attr.v, "")

-----------------------------------------------------------------------------
(* Properties of parse (checked under SpecParse) *)

Parsed == phase = "parsed"

\* the header checks of parse, read off the input bytes
HasHeader(in) == Len(in) >= 20
ZBits(in) == in[1] \div 64
TypBits(in) == (in[1] % 64) * 256 + in[2]
HasCookie(in) == Slice(in, 4, 8) = << 33, 18, 164, 66 >>
PassesHeaderChecks(in) == HasHeader(in) /\ ZBits(in) = 0 /\ HasCookie(in)
KnownMethod(in) == BitAnd(TypBits(in), MaskMethod) = MethodBinding

\* walking the TLVs of in from pos: "end" when the walk ends at the end of
\* the buffer, "header" when fewer than 4 bytes are left for a TLV header,
\* "overflow" when a declared value and its padding reach past the buffer
RECURSIVE TlvWalk(_, _)
TlvWalk(in, pos) ==
    IF pos >= Len(in) THEN "end"
    ELSE IF Len(in) - pos < 4 THEN "header"
    ELSE LET len == ReadU16(in, pos + 2) IN
         IF pos + 4 + len + WirePadding(len) > Len(in) THEN "overflow"
         ELSE TlvWalk(in, pos + 4 + len + WirePadding(len))

\* C5: parse returns Ok(None) for every input shorter than 20 bytes.
C5_ShortInputIsNone ==
    (Parsed /\ Len(input) < 20) => result.kind = "none"

\* C6: for an input of at least 20 bytes parse returns None when the z bits
\* are not zero, and None when bytes 4..8 are not the magic cookie.
C6_HeaderGate ==
    (Parsed /\ HasHeader(input) /\ (ZBits(input) # 0 \/ ~HasCookie(input))) =>
        result.kind = "none"

C6_Witness ==
    /\ Parsed /\ HasHeader(input)
    /\ ZBits(input) = 0 /\ ~HasCookie(input) /\ ~KnownMethod(input)
    /\ Len(input) > 20
    /\ result.kind = "none"

\* C7: an input with a good header and an unknown method is parsed without a
\* panic; when its attributes are well laid out the parsed message keeps the
\* raw type bits and the transaction id.
C7_UnknownMethodParses ==
    (Parsed /\ PassesHeaderChecks(input) /\ ~KnownMethod(input)) =>
        /\ result.kind # "panic"
        /\ TlvWalk(input, 20) = "end" =>
              /\ result.kind = "ok"
              /\ result.pm.head.typ = TypBits(input)
              /\ result.pm.tsx_id = Slice(input, 8, 20)

\* C8: the attribute list of an accepted input is the in-order sequence of
\* the buffer's TLVs: the first at 20, each value the len bytes after its
\* 4-byte header, each next record at attr_idx + 4 + len + padding(len),
\* every attr_idx a multiple of 4 and no record reaching past the buffer.
C8_AttributesAreTheTlvs ==
    (Parsed /\ result.kind = "ok") =>
        LET a == result.pm.attributes
            end(i) == a[i].attr_idx + 4 + Len(a[i].value) + WirePadding(Len(a[i].value))
        IN  /\ a = << >> <=> Len(input) = 20
            /\ a # << >> => a[1].attr_idx = 20 /\ end(Len(a)) = Len(input)
            /\ \A i \in 1..Len(a) :
                  /\ a[i].attr_idx % 4 = 0
                  /\ a[i].typ = ReadU16(input, a[i].attr_idx)
                  /\ Len(a[i].value) = ReadU16(input, a[i].attr_idx + 2)
                  /\ a[i].value = Slice(input, a[i].attr_idx + 4,
                                        a[i].attr_idx + 4 + Len(a[i].value))
                  /\ end(i) <= Len(input)
                  /\ i < Len(a) => a[i + 1].attr_idx = end(i)

C8_Witness ==
    /\ Parsed /\ result.kind = "ok"
    /\ Len(result.pm.attributes) = 2
    /\ Len(result.pm.attributes[1].value) = 1
    /\ Len(result.pm.attributes[2].value) = 3
    /\ result.pm.attributes[2].attr_idx = 28

\* C9: an input that passes the header checks and holds an attribute whose
\* declared value and padding reach past the buffer is answered with
\* Err(InvalidData("Invalid attribute length in STUN message")), and with no
\* message.
C9_OverflowIsInvalidData ==
    (Parsed /\ PassesHeaderChecks(input) /\ TlvWalk(input, 20) = "overflow") =>
        result = Returned("err", "Invalid attribute length in STUN message", << >>)

\* What parse does keep (under SpecParse): a short input is answered with
\* None when its z bits are read and not zero, and with the read error
\* otherwise; and with the method Binding an overflowing attribute is
\* answered with the attribute-length error.
ShortInputIsNoneOrReadError ==
    (Parsed /\ Len(input) < 20) =>
        IF Len(input) >= 4 /\ ZBits(input) # 0
        THEN result.kind = "none"
        ELSE result = Returned("err", "failed to read from buffer", << >>)

OverflowIsInvalidData_KnownMethod ==
    (Parsed /\ PassesHeaderChecks(input) /\ KnownMethod(input)
            /\ TlvWalk(input, 20) = "overflow") =>
        result = Returned("err", "Invalid attribute length in STUN message", << >>)
-----------------------------------------------------------------------------
(* Properties of the address codec (checked under SpecAddr) *)

\* the value bytes that encode appended for the i-th attribute added
AppendedValue(i) ==
    Slice(buffer, added[i].attr_idx + 4, added[i].attr_idx + 4 + added[i].appended)

\* XorMappedAddress::decode of the i-th attribute's value, against a message
\* whose id is the builder's (the cookie and the same transaction id)
DecodedXorAddr(i) == decode_addr(AppendedValue(i), XOR16, CookieBytes, id)

\* C11: an address encoded as XOR-MAPPED-ADDRESS on a builder with
\* transaction id tid and decoded against a message carrying tid comes back
\* with the same IP octets and the same port.
C11_XorAddrRoundTrip ==
    \A i \in 1..Len(added) :
        added[i].attr.t = "XorMappedAddress" =>
            /\ DecodedXorAddr(i).kind = "ok"
            /\ DecodedXorAddr(i).v.fam = added[i].attr.fam
            /\ DecodedXorAddr(i).v.v = added[i].attr.v
            /\ DecodedXorAddr(i).v.n = added[i].attr.n

\* What the address codec does keep (under SpecAddr): the family and the
\* port come back, and the IP octets come back in the order that
\* from_ne_bytes read them in.
XorAddrRoundTrip_NeOctets ==
    \A i \in 1..Len(added) :
        added[i].attr.t = "XorMappedAddress" =>
            /\ DecodedXorAddr(i).kind = "ok"
            /\ DecodedXorAddr(i).v.fam = added[i].attr.fam
            /\ DecodedXorAddr(i).v.v = FromNeBytes(added[i].attr.v)
            /\ DecodedXorAddr(i).v.n = added[i].attr.n

-----------------------------------------------------------------------------
(* Properties of MESSAGE-INTEGRITY (checked under Spec) *)

\* the keys of the Hmac<Sha1> contexts a caller may hold
IntegrityKeys == {1, 2}

ErrIntegrity == "failed to verify message integrity"

\* the last add_attr_with of the builder added MESSAGE-INTEGRITY
LastAdded == added[Len(added)]
EndsWithIntegrity == added # << >> /\ LastAdded.attr.t = "MessageIntegrity"

\* the bytes message_integrity_encode handed to hmac.update for the last
\* attribute added
MacedOnEncode == Slice(at_encode, 0, Len(at_encode) - 4)

\* C12: a message whose last attribute is MESSAGE-INTEGRITY added with key k,
\* finished and parsed, verifies with k and fails with InvalidData("failed
\* to verify message integrity") for every key giving another HMAC; the bytes
\* MACed on encode are the bytes [0, attr_idx) of the finished message.
C12_IntegrityVerifies ==
    (phase = "finished" /\ EndsWithIntegrity) =>
        LET r == Parse(input)
            k == LastAdded.attr.n
        IN  /\ r.kind = "ok"
            /\ GetAttrWith(r.pm, "MessageIntegrity", k) = Got("ok", << >>, "")
            /\ MacedOnEncode = Slice(input, 0, LastAdded.attr_idx)
            /\ \A k2 \in IntegrityKeys :
                  HmacFinalize(k2, MacedOnEncode, Sha1OutputSize)
                        # HmacFinalize(k, MacedOnEncode, Sha1OutputSize)
                  => GetAttrWith(r.pm, "MessageIntegrity", k2)
                        = Got("err", << >>, ErrIntegrity)

\* What the builder does keep (under Spec): when MESSAGE-INTEGRITY is the
\* only attribute of its type and no address attribute precedes it, the
\* message verifies as stated above.
OneIntegrity ==
    \A i \in 1..(Len(added) - 1) : added[i].attr.t # "MessageIntegrity"

IntegrityVerifies_NoAddress ==
    (NoAddressAdded /\ OneIntegrity) => C12_IntegrityVerifies

-----------------------------------------------------------------------------
(* Properties of an altered message (checked under SpecTamper) *)

\* the receiver's get_attr_with for the integrity attribute that was added
\* last, with the key it was added with, returns Some(Ok(..))
VerifiesWithOriginalKey ==
    /\ result.kind = "ok"
    /\ GetAttrWith(result.pm, LastAdded.attr.t, LastAdded.attr.n).kind = "ok"

\* C13: when one byte outside the MAC value of a message ending with an
\* integrity attribute is changed, parsing what arrives and decoding the
\* integrity attribute with the original key does not succeed.
C13_AlteredByteFailsVerification ==
    (phase = "parsed" /\ input # buffer) => ~VerifiesWithOriginalKey

\* What does hold (under SpecTamper): no altered byte verifies when the
\* integrity attribute is the only one of its type in the message, and none
\* verifies in a message whose header length field is its buffer length
\* minus 20, which parse does not look at.
OneOfLastType ==
    \A i \in 1..(Len(added) - 1) : added[i].attr.t # LastAdded.attr.t

AlteredByteFailsVerification_OneOfType ==
    OneOfLastType => C13_AlteredByteFailsVerification

AlteredByteFailsVerification_HeaderLenKept ==
    (Len(input) >= 20 /\ StoredLen(input) = Len(input) - 20)
        => C13_AlteredByteFailsVerification

-----------------------------------------------------------------------------
(* Properties of the order of add_attr_with's steps (checked under Spec) *)

\* the header length field that attr.encode of the last attribute found
LenAtEncode == StoredLen(at_encode)

\* when encode of the last attribute was invoked, the buffer ended with the
\* attribute's TLV header and the header length field was
\* buffer.len() - 20 + enc_len + padding; what followed in the buffer are the
\* bytes encode appended and then padding_usize(enc_len) zero bytes
EncodeFoundHeaderAndLen ==
    added # << >> =>
        /\ Len(at_encode) = LastAdded.attr_idx + 4
        /\ ReadU16(at_encode, LastAdded.attr_idx) = TYPE(LastAdded.attr.t)
        /\ LenAtEncode = (Len(at_encode) - 20) + LastAdded.enc_len
                            + padding_u16(LastAdded.enc_len)
        /\ buffer = at_encode \o AppendedValue(Len(added))
                        \o Zeros(padding_usize(LastAdded.enc_len))

\* C14: when encode is invoked the attribute's TLV header has been appended
\* and the header length field already is the total length of the attributes
\* after this one, its padding included; the padding follows encode.
C14_LenSetBeforeEncode ==
    /\ EncodeFoundHeaderAndLen
    /\ added # << >> => LenAtEncode = Len(buffer) - 20

\* What the builder does keep (under Spec): the order of the steps for every
\* attribute, and the length field for those that are no addresses.
LenSetBeforeEncode_NoAddress == NoAddressAdded => C14_LenSetBeforeEncode

-----------------------------------------------------------------------------
(* Properties of a failing add_attr_with (checked under SpecBig) *)

\* this step is an add_attr_with call that did not return Ok
FailedAdd == rets' # rets /\ rets'[Len(rets')].kind # "ok"

\* some add_attr_with call on the builder returned Err
SomeAddErr == \E i \in 1..Len(rets) : rets[i].kind = "err"

\* the bytes finish() handed out are a well-formed message of the attributes
\* that were added
WellFormed ==
    /\ StoredLen(input) = Len(input) - 20
    /\ Parse(input).kind = "ok"
    /\ Len(Parse(input).pm.attributes) = Len(added)

\* C15: an add_attr call that fails returns an error and leaves the buffer,
\* the header length and the attributes added before as they were; what
\* finish() hands out afterwards is a well-formed message.
C15_FailedAddLeavesBuilder ==
    /\ [][FailedAdd => /\ rets'[Len(rets')].kind = "err"
                       /\ buffer' = buffer
                       /\ head' = head
                       /\ added' = added]_vars
    /\ []((phase = "finished" /\ SomeAddErr) => WellFormed)

\* What a failing call does keep (under SpecBig): a call that returns Err
\* leaves the header word and the earlier bytes alone and leaves its 4-byte
\* TLV header at the end of the buffer.
AddErrLeavesTlvHeader ==
    [][(rets' # rets /\ rets'[Len(rets')].kind = "err") =>
            /\ head' = head
            /\ added' = added
            /\ Len(buffer') = Len(buffer) + 4
            /\ Take(buffer', Len(buffer)) = buffer]_vars

\* C16: a call whose value is longer than 65535 bytes, or that would take
\* the attributes' total length past 65535, returns the integer-overflow
\* error; no call panics, and no call writes a wrapped-around length.
C16_OverflowIsError ==
    \A i \in 1..Len(rets) :
        /\ rets[i].kind # "panic"
        /\ (rets[i].value_len > U16Max \/ rets[i].total > U16Max) =>
              rets[i].kind = "err" /\ rets[i].msg = ErrTryFromInt

\* What the builder does keep (under SpecBig): a call whose lengths fit
\* returns Ok, and a value past the u16 range makes the call panic.
FittingAddIsOk ==
    \A i \in 1..Len(rets) :
        /\ (rets[i].value_len <= U16Max /\ rets[i].total <= U16Max) =>
              rets[i].kind = "ok"
        /\ rets[i].value_len > U16Max =>
              rets[i].kind = "panic" /\ rets[i].msg = PanicEncodeLen

-----------------------------------------------------------------------------
(* Properties of check_if_stun_message (checked under SpecCheck) *)

Checked == phase = "checked"

\* C17: check_if_stun_message returns true exactly when the input has at
\* least 20 bytes, the two z bits of the header word are zero and bytes 4..8
\* are the magic cookie.
C17_CheckIsHeaderChecks ==
    Checked => (result.kind = "true" <=> PassesHeaderChecks(input))

\* What check_if_stun_message does (under SpecCheck): it returns false.
CheckIsFalse == Checked => result.kind = "false"

-----------------------------------------------------------------------------
(* Properties of get_attr (checked under SpecParse) *)

\* the 0-based position of the first TLV of type typ in the buffer in, walking
\* the TLVs from pos; -1 when the walk ends without one
RECURSIVE FirstTlvOfType(_, _, _)
FirstTlvOfType(in, pos, typ) ==
    IF Len(in) - pos < 4 THEN -1
    ELSE IF ReadU16(in, pos) = typ THEN pos
    ELSE LET len == ReadU16(in, pos + 2) IN
         FirstTlvOfType(in, pos + 4 + len + WirePadding(len), typ)

\* the value bytes of the TLV at pos
TlvValue(in, pos) == Slice(in, pos + 4, pos + 4 + ReadU16(in, pos + 2))

\* the types of the TLVs of in from pos on, in wire order
RECURSIVE TlvTypes(_, _)
TlvTypes(in, pos) ==
    IF Len(in) - pos < 4 THEN << >>
    ELSE LET len == ReadU16(in, pos + 2) IN
         << ReadU16(in, pos) >> \o TlvTypes(in, pos + 4 + len + WirePadding(len))

\* C18: get_attr for a type decodes the first TLV of that type in the parsed
\* message, later ones of the type staying in the attribute list in wire
\* order, and returns None when the message holds no TLV of the type.
C18_GetAttrIsFirstMatch ==
    (Parsed /\ result.kind = "ok") =>
        /\ [i \in 1..Len(result.pm.attributes) |-> result.pm.attributes[i].typ]
              = TlvTypes(input, 20)
        /\ \A t \in StringTypes :
              LET pos == FirstTlvOfType(input, 20, TYPE(t)) IN
              IF pos = -1
              THEN GetAttr(result.pm, t) = Got("none", << >>, "")
              ELSE GetAttr(result.pm, t) = Got("ok", TlvValue(input, pos), "")

C18_Witness ==
    /\ Parsed /\ result.kind = "ok"
    /\ Len(result.pm.attributes) = 2
    /\ result.pm.attributes[1].typ = TypeUsername
    /\ result.pm.attributes[2].typ = TypeUsername
    /\ result.pm.attributes[1].value = << 97 >>
    /\ result.pm.attributes[2].value = << 97, 98, 99 >>
    /\ GetAttr(result.pm, "Username") = Got("ok", << 97 >>, "")
    /\ GetAttr(result.pm, "Realm") = Got("none", << >>, "")

-----------------------------------------------------------------------------
(* Properties of the builder's alignment (checked under Spec) *)

\* C19: after new and after every sequence of successful add_attr calls the
\* buffer's length and the header length field are multiples of 4.
C19_BufferAndLenAligned ==
    /\ Len(buffer) % 4 = 0
    /\ StoredLen(buffer) % 4 = 0
    /\ head.len % 4 = 0

C19_Witness ==
    /\ Len(added) = 2
    /\ added[1].enc_len % 4 = 1
    /\ added[2].enc_len % 4 = 2
    /\ \A i \in 1..Len(rets) : rets[i].kind = "ok"
    /\ Len(buffer) = 20 + (4 + added[1].enc_len + 3) + (4 + added[2].enc_len + 2)
    /\ StoredLen(buffer) = Len(buffer) - 20

-----------------------------------------------------------------------------
(* The client's binding request (checked under Spec) *)

\* 00 01 00 0C 21 12 A4 42 00 11 22 33 44 55 66 77 88 99 AA BB
\* 80 22 00 08 65 7A 6B 2D 73 74 75 6E
BindingRequestBytes ==
    << 0, 1, 0, 12, 33, 18, 164, 66,
       0, 17, 34, 51, 68, 85, 102, 119, 136, 153, 170, 187,
       128, 34, 0, 8,
       101, 122, 107, 45, 115, 116, 117, 110 >>

\* finish() was called on a Request / Binding builder with transaction id
\* 0x00112233445566778899AABB to which Software("ezk-stun") alone was added
BuiltBindingRequest ==
    /\ phase = "finished"
    /\ ClassTryFrom(head.typ).v = "Request"
    /\ tsx_id(id) = << 0, 17, 34, 51, 68, 85, 102, 119, 136, 153, 170, 187 >>
    /\ Len(rets) = 1
    /\ Len(added) = 1
    /\ added[1].attr = Str("Software", EzkStun)

\* C20: the binding request with Software("ezk-stun") is the 32 bytes above,
\* and they parse to class Request, method Binding, the same transaction id
\* and one attribute of type 0x8022 that decodes to "ezk-stun".
C20_BindingRequestBytes ==
    BuiltBindingRequest =>
        /\ input = BindingRequestBytes
        /\ LET r == Parse(input) IN
           /\ r.kind = "ok"
           /\ r.pm.class = "Request"
           /\ r.pm.method = "Binding"
           /\ r.pm.tsx_id = tsx_id(id)
           /\ Len(r.pm.attributes) = 1
           /\ r.pm.attributes[1].typ = 32802
           /\ GetAttr(r.pm, "Software") = Got("ok", EzkStun, "")

C20_Witness ==
    /\ BuiltBindingRequest
    /\ ~flag_called
    /\ Len(input) = 32
    /\ Parse(input).kind = "ok"

-----------------------------------------------------------------------------
(* Properties of the XOR-MAPPED-ADDRESS wire format (checked under SpecAddr) *)

\* the high 16 bits of the magic cookie: 0x2112
CookieHigh16 == COOKIE \div 65536

\* the value bytes of XOR-MAPPED-ADDRESS for the address addr as RFC 8489
\* section 14.2 lays them out, mid being the message id
WireXorAddr(addr, mid) ==
    << 0, addr.fam >> \o XorBytes(PutU16(addr.n), PutU16(CookieHigh16))
        \o XorBytes(addr.v, IF addr.fam = 1 THEN CookieBytes ELSE mid)

\* C21: the XOR-MAPPED-ADDRESS value holds the port XORed with 0x2112 and
\* the IPv4 octets a, b, c, d in this order XORed with 0x2112A442, and
\* decode undoes these masks on a value laid out so.
C21_XorAddrWireFormat ==
    \A i \in 1..Len(added) :
        added[i].attr.t = "XorMappedAddress" =>
            /\ AppendedValue(i) = WireXorAddr(added[i].attr, id)
            /\ LET d == decode_addr(WireXorAddr(added[i].attr, id),
                                    XOR16, CookieBytes, id)
               IN  /\ d.kind = "ok"
                   /\ d.v.n = added[i].attr.n
                   /\ d.v.v = added[i].attr.v

\* What the codec does (under SpecAddr): the port is XORed with the low 16
\* bits of the cookie, 0xA442, on encode and on decode; encode XORs the
\* octets in the order from_ne_bytes gives them, and decode reads the
\* address bytes in wire order.
XorAddrWireFormat_LowCookieBits ==
    \A i \in 1..Len(added) :
        added[i].attr.t = "XorMappedAddress" =>
            LET a == added[i].attr
                d == decode_addr(WireXorAddr(a, id), XOR16, CookieBytes, id)
            IN  /\ XOR16 = 42050
                /\ AppendedValue(i) =
                      << 0, a.fam >> \o XorBytes(PutU16(a.n), PutU16(XOR16))
                        \o XorBytes(FromNeBytes(a.v),
                                    IF a.fam = 1 THEN CookieBytes ELSE id)
                /\ d.kind = "ok"
                /\ d.v.v = a.v
                /\ d.v.n = BitXor(BitXor(a.n, CookieHigh16), XOR16)

-----------------------------------------------------------------------------
(* Properties of a message with both integrity attributes (checked under   *)
(* Spec)                                                                   *)

\* the last two add_attr_with calls added MESSAGE-INTEGRITY-SHA256 and then
\* MESSAGE-INTEGRITY, and the builder was finished
BuiltSha256ThenSha1 ==
    /\ phase = "finished"
    /\ Len(added) >= 2
    /\ added[Len(added) - 1].attr.t = "MessageIntegritySha256"
    /\ added[Len(added)].attr.t = "MessageIntegrity"
    /\ \A i \in 1..(Len(added) - 2) : added[i].attr.t \notin IntegrityTypes

\* the bytes b with the header length field rewritten to len
WithHeaderLen(b, len) == Take(b, 2) \o PutU16(len) \o Slice(b, 4, Len(b))

\* C22: a message built with MESSAGE-INTEGRITY-SHA256 followed by
\* MESSAGE-INTEGRITY parses, and each of the two integrity attributes
\* decodes with the key it was added with.
C22_BothIntegritiesVerify ==
    BuiltSha256ThenSha1 =>
        LET r == Parse(input) IN
        /\ r.kind = "ok"
        /\ GetAttrWith(r.pm, "MessageIntegritySha256",
                       added[Len(added) - 1].attr.n) = Got("ok", << >>, "")
        /\ GetAttrWith(r.pm, "MessageIntegrity",
                       added[Len(added)].attr.n) = Got("ok", << >>, "")

\* What does hold (under Spec) when no address attribute was added: the
\* message parses and MESSAGE-INTEGRITY verifies; MESSAGE-INTEGRITY-SHA256
\* fails to verify against the finished message, and its value is the MAC of
\* the bytes before it under the header length that ends with it.
Sha256MacIsOfEarlierHeaderLen ==
    (BuiltSha256ThenSha1 /\ NoAddressAdded) =>
        LET r   == Parse(input)
            sha == added[Len(added) - 1]
        IN  /\ r.kind = "ok"
            /\ GetAttrWith(r.pm, "MessageIntegrity", LastAdded.attr.n)
                    = Got("ok", << >>, "")
            /\ GetAttrWith(r.pm, "MessageIntegritySha256", sha.attr.n)
                    = Got("err", << >>, ErrIntegrity)
            /\ AppendedValue(Len(added) - 1) =
                  HmacFinalize(sha.attr.n,
                               Slice(WithHeaderLen(input, sha.attr_idx + 4
                                                   + Sha256OutputSize - 20),
                                     0, sha.attr_idx),
                               Sha256OutputSize)

-----------------------------------------------------------------------------
(* Properties of the header length field on parse (checked under SpecParse) *)

\* C23: every input that parse accepts has a header length field that is a
\* multiple of 4 and equals the buffer length minus 20; an input with bytes
\* beyond 20 + header length, or with fewer attribute bytes than the header
\* declares, is not accepted.
C23_AcceptedHasHeaderInvariant ==
    (Parsed /\ result.kind = "ok") =>
        /\ StoredLen(input) % 4 = 0
        /\ StoredLen(input) = Len(input) - 20

\* Header length values no message of the input's size has: none, one that
\* is no multiple of 4, the largest
OtherHeaderLens == {0, 3, 65535}

\* What parse does (under SpecParse): the header length field has no part in
\* what it returns; the same input under any other header length is accepted
\* or refused alike, with the same attributes.
ParseIgnoresHeaderLen ==
    (Parsed /\ Len(input) >= 4) =>
        \A l \in OtherHeaderLens :
            LET r == Parse(WithHeaderLen(input, l)) IN
            /\ r.kind = result.kind
            /\ r.msg = result.msg
            /\ result.kind = "ok" => r.pm.attributes = result.pm.attributes

-----------------------------------------------------------------------------
(* Properties of the PASSWORD-ALGORITHMS codec (checked under SpecAlgs) *)

\* Attribute::decode of type t applied to the value bytes that encode
\* appended for the i-th attribute added
DecodedAppended(i) ==
    Decode(added[i].attr.t, 0, [id |-> id, buffer |-> buffer],
           [attr_idx |-> added[i].attr_idx,
            typ      |-> TYPE(added[i].attr.t),
            value    |-> AppendedValue(i)])

\* C24: decoding the PASSWORD-ALGORITHMS value that encode produced for a
\* list of (algorithm, params) records yields the same list: as many
\* records, in order, each with the same algorithm and params.
C24_AlgorithmsRoundTrip ==
    \A i \in 1..Len(added) :
        added[i].attr.t = "PasswordAlgorithms" =>
            DecodedAppended(i) = Got("ok", added[i].attr.algs, "")

\* What the codec does keep (under SpecAlgs): a list whose records all have
\* empty params comes back as it was; and whatever decode returns for a
\* list, the first record it read is the list's first record.
AllParamsEmpty(algs) == \A j \in 1..Len(algs) : algs[j].params = << >>

AlgorithmsRoundTrip_EmptyParams ==
    \A i \in 1..Len(added) :
        (added[i].attr.t = "PasswordAlgorithms" /\ AllParamsEmpty(added[i].attr.algs))
            => DecodedAppended(i) = Got("ok", added[i].attr.algs, "")

AlgorithmsDecode_RereadsParams ==
    \A i \in 1..Len(added) :
        (/\ added[i].attr.t = "PasswordAlgorithms"
         /\ added[i].attr.algs # << >>
         /\ added[i].attr.algs[1].params # << >>) =>
            LET d == DecodedAppended(i) IN
            \/ d.kind = "err"
            \/ /\ d.kind = "ok"
               /\ Len(d.v) > Len(added[i].attr.algs)
               /\ d.v[1] = added[i].attr.algs[1]

-----------------------------------------------------------------------------
(* Properties of the ERROR-CODE codec (checked under SpecErrorCode) *)

\* the head word of the value is written network-endian, class in bits
\* 11..8, number in bits 7..0, every other bit zero
ErrorCodeHeadOnWire(i) ==
    Take(AppendedValue(i), 4)
        = << 0, 0, added[i].attr.n \div 100, added[i].attr.n % 100 >>

\* decode refuses every value shorter than 4 bytes
ShortErrorCodeRefused(i) ==
    \A k \in 0..3 :
        DecodeErrorCode(Take(AppendedValue(i), k)) = Got("err", << >>, ErrErrorCodeLen)

\* C25: decoding the ERROR-CODE value that encode produced for a code from
\* 300 to 699 and a reason returns the same code and the same reason; the
\* head word is network-endian with class in bits 8..11 and number in bits
\* 0..7, and a value shorter than 4 bytes is refused with InvalidData.
C25_ErrorCodeRoundTrip ==
    \A i \in 1..Len(added) :
        added[i].attr.t = "ErrorCode" =>
            /\ DecodedAppended(i)
                  = Got("ok", [n |-> added[i].attr.n, v |-> added[i].attr.v], "")
            /\ ErrorCodeHeadOnWire(i)
            /\ ShortErrorCodeRefused(i)

\* What the codec does keep (under SpecErrorCode): the head word on the
\* wire and the refusal of short values are as stated, and the reason comes
\* back; decode reads class and number from the first two bytes of the
\* value, as from_ne_bytes orders them, where encode wrote zeros.
ErrorCodeDecode_ReadsNativeOrder ==
    \A i \in 1..Len(added) :
        added[i].attr.t = "ErrorCode" =>
            /\ ErrorCodeHeadOnWire(i)
            /\ ShortErrorCodeRefused(i)
            /\ DecodedAppended(i) = Got("ok", [n |-> 0, v |-> added[i].attr.v], "")

-----------------------------------------------------------------------------
(* Properties of the type word (checked under SpecType) *)

\* the class bits of the four classes
ClassBits(c) ==
    CASE c = "Request"    -> ClassRequest
      [] c = "Indication" -> ClassIndication
      [] c = "Success"    -> ClassSuccess
      [] c = "Error"      -> ClassError

\* the type word that new(new_class, Binding, ..) built: the class in the
\* bits 0x0110, the method in the bits 0x3EEF, nothing else, no z bit; it
\* unpacks to the class and method handed to new, and so does parse
TypeWordOfNew ==
    /\ head.z = 0
    /\ buffer[1] \div 64 = 0
    /\ ReadU16(buffer, 0) = head.typ
    /\ BitAnd(head.typ, MaskClass) = ClassBits(new_class)
    /\ BitAnd(head.typ, MaskMethod) = MethodBinding
    /\ head.typ = ClassBits(new_class) + MethodBinding
    /\ ClassTryFrom(head.typ) = [ok |-> TRUE, v |-> new_class]
    /\ MethodTryFrom(head.typ) = [ok |-> TRUE, v |-> "Binding"]
    /\ phase = "parsed" =>
          /\ result.kind = "ok"
          /\ result.pm.class = new_class
          /\ result.pm.method = "Binding"

\* C26: for each of the four classes and method Binding the type word built
\* by MessageBuilder::new has the class only in bits 0x0110, the method only
\* in bits 0x3EEF and zero z bits, and unpacks to the same class and method;
\* Class::set leaves the method bits of a word unchanged and Method::set
\* leaves its class bits unchanged.
C26_TypeWordPacking ==
    /\ []TypeWordOfNew
    /\ [][/\ \A c \in Classes :
                ClassSetWord(c) =>
                    /\ BitAnd(typ_word', MaskMethod) = BitAnd(typ_word, MaskMethod)
                    /\ BitAnd(typ_word', MaskClass) = ClassBits(c)
          /\ \A m \in Methods :
                MethodSetWord(m) =>
                    /\ BitAnd(typ_word', MaskClass) = BitAnd(typ_word, MaskClass)
                    /\ BitAnd(typ_word', MaskMethod) = MethodBinding]_vars

\* an Indication was built, finished and parsed, and the caller's word went
\* from 0x3EEF to 0x3EFF by Class::set(Indication)
C26_Witness ==
    /\ phase = "parsed"
    /\ new_class = "Indication"
    /\ result.kind = "ok"
    /\ result.pm.class = "Indication"
    /\ head.typ = 17
    /\ typ_word = 16127

-----------------------------------------------------------------------------
(* Properties of the integrity key (checked under SpecCred) *)

Colon == << 58 >>

\* the key bytes RFC 8489 section 9 gives a credential: the password for a
\* short-term one, MD5(username ":" realm ":" password) for a long-term one
KeyOfCredential(c) ==
    IF c.kind = "ShortTerm" THEN c.password
    ELSE Md5(c.username \o Colon \o c.realm \o Colon \o c.password)

\* the output size of the integrity attribute of type t
OutputSize(t) == IF t = "MessageIntegrity" THEN Sha1OutputSize ELSE Sha256OutputSize

\* C27: with a short-term credential the HMAC key of MESSAGE-INTEGRITY and
\* MESSAGE-INTEGRITY-SHA256 is the password bytes; MD5 is applied on the
\* long-term path only, where the key is MD5(username ":" realm ":" password).
C27_IntegrityKeyOfCredential ==
    added # << >> =>
        /\ LastAdded.attr.n = HmacNewFromSlice(KeyOfCredential(credential))
        /\ AppendedValue(Len(added)) =
              HmacFinalize(HmacNewFromSlice(KeyOfCredential(credential)),
                           MacedOnEncode, OutputSize(LastAdded.attr.t))

\* What the code does (under SpecCred): for either kind of credential and
\* either attribute the key is MD5(password).
IntegrityKeyIsMd5OfPassword ==
    added # << >> =>
        /\ LastAdded.attr.n = HmacNewFromSlice(Md5(credential.password))
        /\ AppendedValue(Len(added)) =
              HmacFinalize(HmacNewFromSlice(Md5(credential.password)),
                           MacedOnEncode, OutputSize(LastAdded.attr.t))

\* no credential's claimed key stands for the same Hmac context as the MD5
\* of its password
ClaimedKeyDiffers ==
    HmacNewFromSlice(KeyOfCredential(credential))
        # HmacNewFromSlice(Md5(credential.password))

-----------------------------------------------------------------------------
(* Properties of what add_attr leaves alone (checked under Spec) *)

\* this step is an add_attr_with call that returned Ok
SuccessfulAdd == rets' # rets /\ rets'[Len(rets')].kind = "ok"

\* C28: a successful add_attr call leaves bytes 4..20 (cookie and
\* transaction id), the type bits and the z bits of the header word and all
\* bytes of the attributes added before unchanged; of the bytes that were
\* there, only the length field in bytes 2..4 may change.
C28_AddAttrIsAppendOnly ==
    [][SuccessfulAdd =>
          /\ Len(buffer') > Len(buffer)
          /\ Take(buffer', 2) = Take(buffer, 2)
          /\ Slice(buffer', 4, Len(buffer)) = Slice(buffer, 4, Len(buffer))
          /\ head'.z = head.z
          /\ head'.typ = head.typ
          /\ id' = id]_vars

\* two attributes were added, the second after a first with padding, and the
\* length field moved on from the first one's total
C28_Witness ==
    /\ Len(added) = 2
    /\ \A i \in 1..Len(rets) : rets[i].kind = "ok"
    /\ added[1].attr = Str("Username", Text(1))
    /\ added[2].attr_idx = 28
    /\ Slice(buffer, 20, 28) = << 0, 6, 0, 4, 97, 0, 0, 0 >>
    /\ StoredLen(buffer) > 8
    /\ ReadU16(buffer, 0) = head.typ
    /\ Slice(buffer, 4, 20) = id

-----------------------------------------------------------------------------
(* Properties of the queued builder (checked under SpecQueue) *)

\* the bytes finish(queue) handed out are the header followed by the queued
\* attributes in insertion order: TLV i has the type of the i-th attribute
\* queued and starts where TLV i - 1 and its padding end
QueuedInOrder ==
    /\ Len(input) >= 20
    /\ Take(input, 2) = PutU16(head.typ)
    /\ Slice(input, 4, 20) = id
    /\ Len(added) = Len(queue.builder)
    /\ \A i \in 1..Len(added) :
          /\ added[i].attr = queue.builder[i].attr
          /\ ReadU16(input, added[i].attr_idx) = TYPE(queue.builder[i].attr.t)
          /\ added[i].attr_idx =
                IF i = 1 THEN 20
                ELSE added[i - 1].attr_idx + 4 + added[i - 1].appended
                        + padding_usize(added[i - 1].enc_len)
    /\ Len(input) =
          IF added = << >> THEN 20
          ELSE LastAdded.attr_idx + 4 + LastAdded.appended
                  + padding_usize(LastAdded.enc_len)

\* the header length field written is the running sum attrs_len, and it is
\* the length of what follows the header
HeaderLenIsQueuedLen ==
    /\ StoredLen(input) = queue.attrs_len
    /\ StoredLen(input) = Len(input) - 20

\* C29: finish(queue) emits the 20-byte header followed by the queued
\* attributes in insertion order, and the header length field, the running
\* sum of 4 + enc_len + padding, is the finished buffer's length minus 20.
C29_QueuedFinish ==
    phase = "finished" => (QueuedInOrder /\ HeaderLenIsQueuedLen)

\* What the queued builder does keep (under SpecQueue): the order and the
\* layout for every queue, the field being the running sum; and the field is
\* the buffer's length minus 20 for queues without an address attribute.
QueuedFinish_OrderKept ==
    phase = "finished" => (QueuedInOrder /\ StoredLen(input) = queue.attrs_len)

QueuedFinish_NoAddress ==
    (phase = "finished" /\ NoAddressAdded) => HeaderLenIsQueuedLen

-----------------------------------------------------------------------------
(* Properties of Transports::select (checked under SpecSelect) *)

\* some unmanaged transport passes select's checks
UnmanagedMatch ==
    \E k \in 1..Len(transports.unmanaged) :
        Eligible(select.info, transports.unmanaged[k])

\* some managed transport is Outgoing to a resolved address and passes them
ManagedMatch ==
    \E t \in transports.transports :
        /\ t.direction.kind = "Outgoing"
        /\ Contains(select.addresses, t.direction.remote)
        /\ Eligible(select.info, t)

\* the positions of the factories whose create was invoked
Created == { select.looked[k].i : k \in { j \in 1..Len(select.looked) :
                                             select.looked[j].src = "create" } }

\* the factories select has passed: all when it is done with an error of
\* the factory loop, those before i while it is in the loop
PassedFactories ==
    IF select.pc = "factories" THEN 1..(select.i - 1)
    ELSE IF select.pc = "done" /\ select.ret.kind = "err"
                /\ select.ret.err # ErrBadGateway
         THEN 1..Len(transports.factories)
         ELSE {}

\* the sources are looked at in the order unmanaged, managed, factories,
\* the factories in the order of the list
LookedInOrder ==
    \A j, k \in 1..Len(select.looked) :
        j < k =>
            LET a == select.looked[j]
                b == select.looked[k]
            IN  \/ a.src = "unmanaged" /\ b.src \in {"managed", "create"}
                \/ a.src = "managed" /\ b.src = "create"
                \/ a.src = "create" /\ b.src = "create" /\ a.i < b.i

\* C30: select returns a matching unmanaged transport without looking at
\* the managed transports or the factories; otherwise it returns a managed
\* transport only if that is Outgoing to one of the resolved addresses, and
\* never an Incoming one; a factory's create is invoked only when neither
\* matched, the factories are tried in order until one succeeds, and when
\* all fail the error is that of the last factory tried, or "no suitable
\* transport or factory found" when none was eligible.
C30_SelectOrder ==
    LET ret == select.ret
        fs  == transports.factories
    IN  /\ LookedInOrder
        /\ (select.pc = "done" /\ UnmanagedMatch /\ ret.err # ErrBadGateway) =>
              /\ ret.kind = "ok"
              /\ Contains(transports.unmanaged, ret.transport)
              /\ Eligible(select.info, ret.transport)
              /\ ret.addresses = select.addresses
              /\ select.looked = << Looked("unmanaged", 0) >>
        /\ (\E k \in 1..Len(select.looked) : select.looked[k].src # "unmanaged")
              => ~UnmanagedMatch
        /\ ret.kind = "ok" => ret.transport.direction.kind # "Incoming"
        /\ (ret.kind = "ok" /\ ret.transport \in transports.transports) =>
              /\ ret.transport.direction.kind = "Outgoing"
              /\ Contains(select.addresses, ret.transport.direction.remote)
              /\ ret.addresses = << ret.transport.direction.remote >>
              /\ Created = {}
        /\ Created # {} => (~UnmanagedMatch /\ ~ManagedMatch)
        /\ \A j \in Created : Eligible(select.info, fs[j])
        /\ \A j \in PassedFactories :
              Eligible(select.info, fs[j]) => (j \in Created /\ fs[j].create = "err")
        /\ \A j \in Created :
              fs[j].create = "ok" =>
                  /\ select.pc = "done"
                  /\ ret.kind = "ok"
                  /\ ret.transport.name = fs[j].name
                  /\ \A k \in Created : k <= j
        /\ (select.pc = "done" /\ ret.kind = "err" /\ ret.err # ErrBadGateway) =>
              IF Created = {} THEN ret.err = ErrNoSuitable
              ELSE \E j \in Created :
                      /\ \A k \in Created : k <= j
                      /\ ret.err = ErrCreate(j)
        /\ (select.pc = "done" /\ ret.err = ErrBadGateway) => select.looked = << >>

\* select looked at the unmanaged and the managed transports, invoked the
\* create of two factories, which both failed, and returned the error of
\* the second
C30_Witness ==
    /\ select.pc = "done"
    /\ select.ret = SelectErr(ErrCreate(2))
    /\ select.looked = << Looked("unmanaged", 0), Looked("managed", 0),
                          Looked("create", 1), Looked("create", 2) >>
    /\ transports.transports # {}
    /\ select.addresses # << >>

====
